---- MODULE Spec2Model ----
(***************************************************************************)
(* A model of the indicator service (app/services/indicator_service.py)    *)
(* and of the bot simulation (app/api/v1/bots.py, simulate_bot).           *)
(*                                                                         *)
(* Numbers.  Python floats are modelled as fixed-point integers counted in *)
(* hundredths: the price 2000.0 is 200000, an RSI of 41.37 is 4137, the    *)
(* threshold 30 is 3000.  A float division a / b is the floor division     *)
(* a \div b of the hundredths, and round(x, 2) rounds to the nearest       *)
(* hundredth.  Optional[float] is a sequence: << >> is None, << v >> is v. *)
(***************************************************************************)
EXTENDS Integers, Sequences, FiniteSets, TLC

\* ------------------------------------------------------------------------
\* Bounds of the model
\* ------------------------------------------------------------------------

\* Longest price list an IndicatorCache is built over in SpecEval.
MaxLen == 4

\* Largest indicator period requested in SpecEval (periods are 1..MaxPeriod).
MaxPeriod == 2

\* ------------------------------------------------------------------------
\* Python values
\* ------------------------------------------------------------------------

None == << >>

Some(v) == << v >>

IsNone(o) == o = << >>

Val(o) == o[1]

\* sum(s) of a list of numbers
RECURSIVE SumSeq(_)
SumSeq(s) == IF s = << >> THEN 0 ELSE Head(s) + SumSeq(Tail(s))

\* s[:n] for 0 <= n
Take(s, n) == SubSeq(s, 1, IF n < Len(s) THEN n ELSE Len(s))

\* s[:n] in the place of s[-n:]: the first n items.
FirstN(s, n) == SubSeq(s, 1, IF n < Len(s) THEN n ELSE Len(s))

\* s[-n:] for 1 <= n
LastN(s, n) == IF n >= Len(s) THEN s ELSE SubSeq(s, Len(s) - n + 1, Len(s))

\* for k in range(lo, hi): st = step(st, k).  The range is split in halves
\* and st is compared with itself so that TLC computes each state before it
\* goes on to the next, which keeps its evaluation stack shallow.
RECURSIVE iterate(_, _, _, _)
iterate(step(_, _), st, lo, hi) ==
    IF st # st \/ lo >= hi THEN st
    ELSE IF hi - lo = 1 THEN step(st, lo)
    ELSE LET mid == (lo + hi) \div 2
         IN  iterate(step, iterate(step, st, lo, mid), mid, hi)

Max(a, b) == IF a >= b THEN a ELSE b

Min(a, b) == IF a <= b THEN a ELSE b

Abs(a) == IF a >= 0 THEN a ELSE -a

\* str.upper() on the indicator names a rule can carry
upper(s) ==
    CASE s = "rsi" -> "RSI"
      [] s = "sma" -> "SMA"
      [] s = "ema" -> "EMA"
      [] s = "Price" -> "PRICE"
      [] s = "price" -> "PRICE"
      [] s = "Bollinger Bands" -> "BOLLINGER BANDS"
      [] s = "Stochastic" -> "STOCHASTIC"
      [] s = "Volume" -> "VOLUME"
      [] OTHER -> s

\* ------------------------------------------------------------------------
\* IndicatorService
\* ------------------------------------------------------------------------

\* calculate_sma: None below `period` samples, else the mean of the last
\* `period` prices.
calculate_sma(ps, period) ==
    IF Len(ps) < period THEN None
    ELSE Some(SumSeq(LastN(ps, period)) \div period)

\* One step of the EMA fold: price * k + ema * (1 - k) with
\* k = 2 / (period + 1).
ema_step(ema, price, period) == (2 * price + (period - 1) * ema) \div (period + 1)

\* calculate_ema_series seeded with the average of all the prices instead
\* of the first `period`.
calculate_ema_series_full_seed(ps, period) ==
    IF Len(ps) < period THEN << >>
    ELSE LET seed == SumSeq(ps) \div Len(ps)
             step(st, k) ==
                 LET e == ema_step(st.ema, ps[k + 1], period)
                 IN  [ema |-> e, series |-> Append(st.series, e)]
         IN  iterate(step, [ema |-> seed, series |-> << seed >>],
                     period, Len(ps)).series

\* calculate_ema_series: the seed SMA of the first `period` prices, then one
\* entry per later price.
calculate_ema_series(ps, period) ==
    IF Len(ps) < period THEN << >>
    ELSE LET seed == SumSeq(Take(ps, period)) \div period
             step(st, k) ==
                 LET e == ema_step(st.ema, ps[k + 1], period)
                 IN  [ema |-> e, series |-> Append(st.series, e)]
         IN  iterate(step, [ema |-> seed, series |-> << seed >>],
                     period, Len(ps)).series

\* calculate_ema: the last value of the same fold.
calculate_ema(ps, period) ==
    IF Len(ps) < period THEN None
    ELSE LET s == calculate_ema_series(ps, period) IN Some(s[Len(s)])

\* changes[i] = prices[i] - prices[i - 1]
changes_of(ps) == [k \in 1..(Len(ps) - 1) |-> ps[k + 1] - ps[k]]

\* gains[i] = max(0, changes[i])
gains_of(ps) == [k \in 1..(Len(ps) - 1) |-> Max(0, ps[k + 1] - ps[k])]

\* losses[i] = abs(min(0, changes[i]))
losses_of(ps) == [k \in 1..(Len(ps) - 1) |-> Abs(Min(0, ps[k + 1] - ps[k]))]

\* rsi_value that returns 100.0 whenever avg_loss is 0.
rsi_value_no_flat(avg_gain, avg_loss) ==
    IF avg_loss = 0 THEN 10000
    ELSE (2 * 10000 * avg_gain + (avg_gain + avg_loss))
             \div (2 * (avg_gain + avg_loss))

\* The RSI of a pair of averages: 100 or 50 when there is no loss, else
\* round(100 - 100 / (1 + avg_gain / avg_loss), 2).
rsi_value(avg_gain, avg_loss) ==
    IF avg_loss = 0 THEN (IF avg_gain > 0 THEN 10000 ELSE 5000)
    ELSE (2 * 10000 * avg_gain + (avg_gain + avg_loss))
             \div (2 * (avg_gain + avg_loss))

\* Wilder's smoothing of one average.
wilder(avg, x, period) == (avg * (period - 1) + x) \div period

\* calculate_rsi_series: empty below period + 1 prices, else one RSI per
\* change from the period-th change on.
calculate_rsi_series(ps, period) ==
    IF Len(ps) < period + 1 THEN << >>
    ELSE LET gs == gains_of(ps)
             ls == losses_of(ps)
             ag == SumSeq(Take(gs, period)) \div period
             al == SumSeq(Take(ls, period)) \div period
             step(st, k) ==
                 LET g == wilder(st.avg_gain, gs[k + 1], period)
                     l == wilder(st.avg_loss, ls[k + 1], period)
                 IN  [avg_gain |-> g, avg_loss |-> l,
                      series |-> Append(st.series, rsi_value(g, l))]
         IN  iterate(step, [avg_gain |-> ag, avg_loss |-> al,
                            series |-> << rsi_value(ag, al) >>],
                     period, Len(gs)).series

\* calculate_rsi: the last value of the same smoothing.
calculate_rsi(ps, period) ==
    IF Len(ps) < period + 1 THEN None
    ELSE LET s == calculate_rsi_series(ps, period) IN Some(s[Len(s)])

\* MACD.  round(x, 4) needs numbers finer than hundredths: calculate_macd
\* takes its prices in hundredths and computes in millionths, and its three
\* results are in millionths.
fine(ps) == [k \in 1..Len(ps) |-> ps[k] * 10000]

\* round(x, 4) of a number of millionths: the nearest multiple of 100, a
\* tie going to the even one.
round4(x) ==
    IF x % 100 < 50 THEN 100 * (x \div 100)
    ELSE IF x % 100 > 50 THEN 100 * (x \div 100 + 1)
    ELSE IF (x \div 100) % 2 = 0 THEN 100 * (x \div 100)
    ELSE 100 * (x \div 100 + 1)

\* s[k:] of a Python list: from index k, or the last -k items for k < 0.
slice_from(s, k) ==
    IF k >= 0 THEN SubSeq(s, k + 1, Len(s)) ELSE LastN(s, -k)

\* [f - s for f, s in zip(a, b)]
zip_minus(a, b) == [k \in 1..Min(Len(a), Len(b)) |-> a[k] - b[k]]

\* aligned_fast without the offset: the fast series from its first entry.
aligned_fast_unshifted(fast_ema_series, fast_period, slow_period) == fast_ema_series

\* aligned_fast = fast_ema_series[offset:] with offset = slow - fast
aligned_fast(fast_ema_series, fast_period, slow_period) ==
    slice_from(fast_ema_series, slow_period - fast_period)

\* The MACD line series of a price list (in millionths).
macd_series(ps, fast_period, slow_period) ==
    zip_minus(aligned_fast(calculate_ema_series(ps, fast_period), fast_period, slow_period),
              calculate_ema_series(ps, slow_period))

\* The MACDResult of the last values of the MACD and signal series.
macd_result(macd, signal_series) ==
    IF signal_series = << >> THEN None
    ELSE Some([macd_line |-> round4(macd[Len(macd)]),
               signal_line |-> round4(signal_series[Len(signal_series)]),
               histogram |-> round4(macd[Len(macd)]
                                    - signal_series[Len(signal_series)])])

\* calculate_macd once the MACD line series is known.
macd_of_series(macd, signal_period) ==
    IF Len(macd) < signal_period THEN None
    ELSE macd_result(macd, calculate_ema_series(macd, signal_period))

\* calculate_macd(prices, fast_period, slow_period, signal_period): None
\* below slow + signal prices or when an EMA series is empty.
calculate_macd(ps, fast_period, slow_period, signal_period) ==
    IF Len(ps) < slow_period + signal_period THEN None
    ELSE IF Len(ps) < fast_period \/ Len(ps) < slow_period THEN None
    ELSE macd_of_series(macd_series(fine(ps), fast_period, slow_period),
                        signal_period)

\* Bollinger bands.  The middle and the bands are in millionths, the
\* deviations and their square root in ten-thousandths (their squares fit
\* the integers of the model), the multiplier std_dev in hundredths.

\* The largest m in lo..hi with m * m <= n.
RECURSIVE sqrt_between(_, _, _)
sqrt_between(n, lo, hi) ==
    IF lo >= hi THEN lo
    ELSE LET mid == (lo + hi + 1) \div 2
         IN  IF mid * mid <= n THEN sqrt_between(n, mid, hi)
             ELSE sqrt_between(n, lo, mid - 1)

\* math.sqrt(n), rounded down.
sqrt(n) == sqrt_between(n, 0, 46340)

\* middle = sum(recent_prices) / period, in millionths.
bollinger_middle(recent, period) == (SumSeq(recent) * 10000) \div period

\* std = sqrt(sum((p - middle) ** 2 for p in recent_prices) / period), in
\* ten-thousandths.
bollinger_std(recent, middle, period) ==
    sqrt(SumSeq([k \in 1..Len(recent) |->
                    (recent[k] * 100 - middle \div 100)
                        * (recent[k] * 100 - middle \div 100)]) \div period)

\* The BollingerResult of a middle and a band half-width std_dev * std.
bollinger_result(middle, half) ==
    [upper |-> round4(middle + half), middle |-> round4(middle),
     lower |-> round4(middle - half),
     bandwidth |-> IF middle \div 100 # 0
                   THEN (2 * half * 100) \div (middle \div 100) ELSE 0]

\* The bands of the last `period` prices.
bollinger_of(recent, period, std_dev) ==
    bollinger_result(bollinger_middle(recent, period),
                     std_dev * bollinger_std(recent,
                                             bollinger_middle(recent, period),
                                             period))

\* calculate_bollinger_bands(prices, period, std_dev): None below `period`
\* prices.
calculate_bollinger_bands(ps, period, std_dev) ==
    IF Len(ps) < period THEN None
    ELSE Some(bollinger_of(LastN(ps, period), period, std_dev))

\* ------------------------------------------------------------------------
\* CrossesDetector
\* ------------------------------------------------------------------------

\* crosses_above that asks for a previous value strictly below the threshold.
crosses_above_strict(current_value, previous_value, threshold) ==
    previous_value < threshold /\ current_value > threshold

crosses_above_or_touches(current_value, previous_value, threshold) ==
    previous_value <= threshold /\ current_value >= threshold

crosses_above(current_value, previous_value, threshold) ==
    previous_value <= threshold /\ current_value > threshold

crosses_below(current_value, previous_value, threshold) ==
    previous_value >= threshold /\ current_value < threshold

\* ------------------------------------------------------------------------
\* IndicatorCache
\* ------------------------------------------------------------------------

\* A call's outcome: the exception raised ("none" when it returned), the
\* Optional[float] returned, and the _cache dict as the call leaves it.
Outcome(e, v, c) == [exc |-> e, val |-> v, cache |-> c]

\* series[k] of a Python list: a negative k counts from the end, and a k
\* outside the list raises IndexError.
list_item(s, k) ==
    IF 0 <= k /\ k < Len(s) THEN [exc |-> "none", val |-> Some(s[k + 1])]
    ELSE IF k < 0 /\ -k <= Len(s)
         THEN [exc |-> "none", val |-> Some(s[Len(s) + k + 1])]
         ELSE [exc |-> "IndexError", val |-> None]

\* The _cache dict emptied of its other keys when key k is set.
cache_put_alone(c, k, s) == [x \in {k} |-> s]

\* The _cache dict with key k set to series s.
cache_put(c, k, s) == [x \in (DOMAIN c) \cup {k} |-> IF x = k THEN s ELSE c[x]]

\* The series get_sma computes on a miss: calculate_sma of every prefix
\* prices[:i + 1] for i in range(period - 1, len(prices)).
sma_series(ps, period) ==
    [k \in 1..Max(0, Len(ps) - period + 1) |->
        Val(calculate_sma(Take(ps, period - 1 + k), period))]

\* `if key not in self._cache: self._cache[key] = <computed>` and
\* `return self._cache[key]`: the series of the key and the dict the call
\* leaves.  `computed` is only looked at on a miss.
cached(c, key, computed) ==
    IF key \in DOMAIN c THEN [series |-> c[key], cache |-> c]
    ELSE [series |-> computed, cache |-> cache_put(c, key, computed)]

\* get_rsi, get_sma, get_ema: the cached series of a key, computed on the
\* first request.
get_rsi(ps, c, period) ==
    cached(c, << "rsi", period >>, calculate_rsi_series(ps, period))

get_sma(ps, c, period) ==
    cached(c, << "sma", period >>, sma_series(ps, period))

get_ema(ps, c, period) ==
    cached(c, << "ema", period >>, calculate_ema_series(ps, period))

\* The guarded read every branch of get_value_at_bar ends with:
\* series[series_index] if 0 <= series_index < len(series), else None.
guarded_item(s, series_index, c) ==
    IF 0 <= series_index /\ series_index < Len(s)
    THEN Outcome(list_item(s, series_index).exc, list_item(s, series_index).val, c)
    ELSE Outcome("none", None, c)

\* The same read on what get_rsi, get_sma or get_ema returned.
series_item(g, series_index) == guarded_item(g.series, series_index, g.cache)

\* rsi_index with the moving averages' offset (the RSI series taken to start
\* at bar period - 1).
rsi_index_as_ma(bar_index, period) == bar_index - period + 1

\* The series index of a bar for each series-backed indicator.
rsi_index(bar_index, period) == bar_index - period

ma_index(bar_index, period) == bar_index - period + 1

\* get_value_at_bar(indicator, bar_index, period) on a cache over prices ps
\* whose dict is c.
get_value_at_bar(ps, c, indicator, bar_index, period) ==
    IF upper(indicator) = "PRICE"
    THEN guarded_item(ps, bar_index, c)
    ELSE IF upper(indicator) = "RSI"
    THEN series_item(get_rsi(ps, c, period), rsi_index(bar_index, period))
    ELSE IF upper(indicator) = "SMA"
    THEN series_item(get_sma(ps, c, period), ma_index(bar_index, period))
    ELSE IF upper(indicator) = "EMA"
    THEN series_item(get_ema(ps, c, period), ma_index(bar_index, period))
    ELSE \* Fallback to price
         guarded_item(ps, bar_index, c)

\* ------------------------------------------------------------------------
\* RuleEvaluator
\* ------------------------------------------------------------------------

\* evaluate's outcome: the exception raised ("none" when it returned), the
\* bool returned, and the cache dict it leaves.
Verdict(e, r, c) == [exc |-> e, ret |-> r, cache |-> c]

\* compare whose equals accepts a difference of exactly 0.01.
compare_wide_equals(operator, v, target_value, c) ==
    IF IsNone(v) THEN Verdict("TypeError", FALSE, c)
    ELSE CASE operator \in {"greater_than", ">"} -> Verdict("none", Val(v) > target_value, c)
           [] operator \in {"less_than", "<"} -> Verdict("none", Val(v) < target_value, c)
           [] operator \in {"equals", "=="} ->
                  Verdict("none", Abs(Val(v) - target_value) <= 1, c)
           [] operator \in {"greater_equal", ">="} -> Verdict("none", Val(v) >= target_value, c)
           [] operator \in {"less_equal", "<="} -> Verdict("none", Val(v) <= target_value, c)

\* A comparison of an Optional[float] with a float: Python raises TypeError
\* when the left side is None.
compare(operator, v, target_value, c) ==
    IF IsNone(v) THEN Verdict("TypeError", FALSE, c)
    ELSE CASE operator \in {"greater_than", ">"} -> Verdict("none", Val(v) > target_value, c)
           [] operator \in {"less_than", "<"} -> Verdict("none", Val(v) < target_value, c)
           [] operator \in {"equals", "=="} ->
                  Verdict("none", Abs(Val(v) - target_value) < 1, c)
           [] operator \in {"greater_equal", ">="} -> Verdict("none", Val(v) >= target_value, c)
           [] operator \in {"less_equal", "<="} -> Verdict("none", Val(v) <= target_value, c)

SimpleOperators ==
    {"greater_than", ">", "less_than", "<", "equals", "==",
     "greater_equal", ">=", "less_equal", "<="}

CrossOperators == {"crosses_above", "crosses_below"}

\* The crosses branch once the previous bar's value was read: False when
\* it is None, else the detector on (current, previous, target).
cross_verdict(operator, target_value, current_val, prev) ==
    IF prev.exc # "none" THEN Verdict(prev.exc, FALSE, prev.cache)
    ELSE IF IsNone(prev.val) THEN Verdict("none", FALSE, prev.cache)
    ELSE IF operator = "crosses_above"
         THEN Verdict("none",
                      crosses_above(Val(current_val), Val(prev.val), target_value),
                      prev.cache)
         ELSE Verdict("none",
                      crosses_below(Val(current_val), Val(prev.val), target_value),
                      prev.cache)

\* cross_verdict without the `if prev_val is None` return: the detector
\* compares None with the threshold.
cross_verdict_unchecked(operator, target_value, current_val, prev) ==
    IF prev.exc # "none" THEN Verdict(prev.exc, FALSE, prev.cache)
    ELSE IF IsNone(prev.val) THEN Verdict("TypeError", FALSE, prev.cache)
    ELSE IF operator = "crosses_above"
         THEN Verdict("none",
                      crosses_above(Val(current_val), Val(prev.val), target_value),
                      prev.cache)
         ELSE Verdict("none",
                      crosses_below(Val(current_val), Val(prev.val), target_value),
                      prev.cache)

\* evaluate_cross with the unchecked detector call.
evaluate_cross_unchecked(ps, c, indicator, operator, target_value, bar_index, period, current_val) ==
    cross_verdict_unchecked(operator, target_value, current_val,
        get_value_at_bar(ps, c, indicator, bar_index - 1, period))

\* The crosses branch of evaluate: the previous bar's value is read from
\* the cache, then judged.
evaluate_cross(ps, c, indicator, operator, target_value, bar_index, period, current_val) ==
    cross_verdict(operator, target_value, current_val,
        get_value_at_bar(ps, c, indicator, bar_index - 1, period))

\* evaluate once the current value was read (cur): False when it is None,
\* a comparison, a cross, or False for an operator it does not know.
evaluate_value(ps, cur, indicator, operator, target_value, bar_index, period) ==
    IF cur.exc # "none" THEN Verdict(cur.exc, FALSE, cur.cache)
    ELSE IF IsNone(cur.val) THEN Verdict("none", FALSE, cur.cache)
    ELSE IF operator \in SimpleOperators
         THEN compare(operator, cur.val, target_value, cur.cache)
    ELSE IF operator \in CrossOperators
         THEN evaluate_cross(ps, cur.cache, indicator, operator, target_value,
                             bar_index, period, cur.val)
    ELSE \* Unknown operator - return False
         Verdict("none", FALSE, cur.cache)

\* RuleEvaluator.evaluate(indicator, operator, target_value, bar_index,
\* period) on a cache over prices ps whose dict is c.
evaluate(ps, c, indicator, operator, target_value, bar_index, period) ==
    evaluate_value(ps, get_value_at_bar(ps, c, indicator, bar_index, period),
                   indicator, operator, target_value, bar_index, period)

\* ------------------------------------------------------------------------
\* State
\* ------------------------------------------------------------------------

VARIABLES
    prices,            \* IndicatorCache.prices / simulate_bot's prices
    highs,             \* IndicatorCache.highs
    lows,              \* IndicatorCache.lows
    cache,             \* IndicatorCache._cache: key -> series
    call,              \* the last direct call on the cache or the evaluator
    db_rules,          \* the bot_rules table: a set of BotRule rows
    rng,               \* the state of the process-wide `random` generator
    pc,                \* where simulate_bot is: idle, loop, done
    request,           \* bot_id and the SimulationRequest of the run
    rules,             \* the rule rows of the bot, ordered by rule_order
    seed_val,
    bars,
    i,                 \* the bar of the simulation loop
    balance,
    position,          \* "None", "buy" or "sell"
    entry_price,
    trades,
    reasons,
    action_triggered,  \* what the rule scan of the last bar left
    trigger_rule,      \* the rule_order in the last bar's trigger_reason
    response,          \* the SimulationResponse of the finished run
    previous,          \* the run finished before this one
    db_bots,           \* the bot_profiles table: id -> the row's bot_state, is_active
    rate_limit_store,  \* _rate_limit_store: user key -> accepted timestamps
    now                \* datetime.utcnow(), in seconds

cachevars == << prices, highs, lows, cache >>

apivars == << db_bots, rate_limit_store, now >>

simvars == << db_rules, rng, pc, request, rules, seed_val, bars, i, balance,
              position, entry_price, trades, reasons, action_triggered,
              trigger_rule, response, previous >>

vars == << prices, highs, lows, cache, call, db_rules, rng, pc, request, rules,
           seed_val, bars, i, balance, position, entry_price, trades, reasons,
           action_triggered, trigger_rule, response, previous, db_bots,
           rate_limit_store, now >>

NoCall == [op |-> "none"]

NoRun == [status |-> "none"]

\* The bot control API before any request: no bot row, an empty
\* _rate_limit_store.
ApiIdle ==
    /\ db_bots = << >>
    /\ rate_limit_store = << >>
    /\ now = 0

\* simulate_bot's locals before a request arrives.
SimIdle ==
    /\ pc = "idle"
    /\ request = NoRun
    /\ rules = << >>
    /\ seed_val = 0
    /\ bars = 0
    /\ i = 0
    /\ balance = 0
    /\ position = "None"
    /\ entry_price = 0
    /\ trades = << >>
    /\ reasons = << >>
    /\ action_triggered = "None"
    /\ trigger_rule = 0
    /\ response = NoRun
    /\ previous = NoRun

\* ------------------------------------------------------------------------
\* SpecEval: direct calls on a cache built over a short price list
\* ------------------------------------------------------------------------

PriceValues == {100, 300}

RECURSIVE ListsUpTo(_, _)
ListsUpTo(S, n) ==
    IF n = 0 THEN {<< >>}
    ELSE LET shorter == ListsUpTo(S, n - 1)
         IN  shorter \cup {Append(l, x) : l \in {m \in shorter : Len(m) = n - 1}, x \in S}

PriceLists == ListsUpTo(PriceValues, MaxLen)

Periods == 1..MaxPeriod

\* The indicator names of IndicatorType, and a lower-case spelling.
Indicators ==
    {"RSI", "SMA", "EMA", "Price", "rsi", "MACD", "Bollinger Bands", "ATR", "Stochastic"}

EvalIndicators == {"RSI", "SMA", "EMA", "Price", "MACD"}

\* The operators evaluate knows, and two it does not.
KnownOperators == SimpleOperators \cup CrossOperators

Operators ==
    {"greater_than", "less_than", "equals", "greater_equal", "less_equal",
     "crosses_above", "crosses_below", ">", "invalid_operator", "cross_above"}

Targets == {200, 299, 300}

BarIndexes == -1..(MaxLen + 1)

InitEval ==
    /\ prices \in PriceLists
    /\ highs = prices
    /\ lows = prices
    /\ cache = << >>
    /\ call = NoCall
    /\ db_rules = {}
    /\ rng = 0
    /\ SimIdle
    /\ ApiIdle

\* cache.get_value_at_bar(indicator, bar_index, period)
CallGetValueAtBar(indicator, bar_index, period) ==
    /\ call = NoCall
    /\ LET r == get_value_at_bar(prices, cache, indicator, bar_index, period)
       IN  /\ cache' = r.cache
           /\ call' = [op |-> "get_value_at_bar", indicator |-> indicator,
                       bar_index |-> bar_index, period |-> period,
                       exc |-> r.exc, val |-> r.val]
    /\ UNCHANGED << prices, highs, lows >>
    /\ UNCHANGED simvars
    /\ UNCHANGED apivars

\* RuleEvaluator(cache).evaluate(indicator, operator, target_value,
\* bar_index, period)
CallEvaluate(indicator, operator, target_value, bar_index, period) ==
    /\ call = NoCall
    /\ LET r == evaluate(prices, cache, indicator, operator, target_value,
                         bar_index, period)
       IN  /\ cache' = r.cache
           /\ call' = [op |-> "evaluate", indicator |-> indicator,
                       operator |-> operator, target_value |-> target_value,
                       bar_index |-> bar_index, period |-> period,
                       exc |-> r.exc, ret |-> r.ret]
    /\ UNCHANGED << prices, highs, lows >>
    /\ UNCHANGED simvars
    /\ UNCHANGED apivars

NextEval ==
    \/ \E indicator \in Indicators, bar_index \in BarIndexes, period \in Periods :
           CallGetValueAtBar(indicator, bar_index, period)
    \/ \E indicator \in EvalIndicators, operator \in Operators,
          target_value \in Targets, bar_index \in BarIndexes, period \in Periods :
           CallEvaluate(indicator, operator, target_value, bar_index, period)

SpecEval == InitEval /\ [][NextEval]_vars

\* ------------------------------------------------------------------------
\* SpecCache: any sequence of calls on one IndicatorCache
\* ------------------------------------------------------------------------

\* The caches are built over price lists of the full length.
CachePriceLists == {l \in PriceLists : Len(l) = MaxLen}

CachePeriods == {1, MaxPeriod}

CacheIndicators == {"RSI", "SMA", "EMA", "Price", "rsi", "ATR"}

CacheBars == 0..MaxLen

InitCache ==
    /\ prices \in CachePriceLists
    /\ highs = prices
    /\ lows = prices
    /\ cache = << >>
    /\ call = NoCall
    /\ db_rules = {}
    /\ rng = 0
    /\ SimIdle
    /\ ApiIdle

\* cache.get_rsi(period), on a cache that may have served calls before.
CallGetRsi(period) ==
    /\ \E g \in {get_rsi(prices, cache, period)} :
          /\ cache' = g.cache
          /\ call' = [op |-> "get_rsi", kind |-> "rsi", period |-> period,
                      series |-> g.series]
    /\ UNCHANGED << prices, highs, lows >>
    /\ UNCHANGED simvars
    /\ UNCHANGED apivars

\* cache.get_sma(period)
CallGetSma(period) ==
    /\ \E g \in {get_sma(prices, cache, period)} :
          /\ cache' = g.cache
          /\ call' = [op |-> "get_sma", kind |-> "sma", period |-> period,
                      series |-> g.series]
    /\ UNCHANGED << prices, highs, lows >>
    /\ UNCHANGED simvars
    /\ UNCHANGED apivars

\* cache.get_ema(period)
CallGetEma(period) ==
    /\ \E g \in {get_ema(prices, cache, period)} :
          /\ cache' = g.cache
          /\ call' = [op |-> "get_ema", kind |-> "ema", period |-> period,
                      series |-> g.series]
    /\ UNCHANGED << prices, highs, lows >>
    /\ UNCHANGED simvars
    /\ UNCHANGED apivars

\* cache.get_value_at_bar(indicator, bar_index, period), on a cache that
\* may have served calls before.
QueryValueAtBar(indicator, bar_index, period) ==
    /\ \E r \in {get_value_at_bar(prices, cache, indicator, bar_index, period)} :
          /\ cache' = r.cache
          /\ call' = [op |-> "get_value_at_bar", indicator |-> indicator,
                      bar_index |-> bar_index, period |-> period,
                      exc |-> r.exc, val |-> r.val]
    /\ UNCHANGED << prices, highs, lows >>
    /\ UNCHANGED simvars
    /\ UNCHANGED apivars

NextCache ==
    \/ \E period \in CachePeriods : CallGetRsi(period)
    \/ \E period \in CachePeriods : CallGetSma(period)
    \/ \E period \in CachePeriods : CallGetEma(period)
    \/ \E indicator \in CacheIndicators, bar_index \in CacheBars,
          period \in CachePeriods :
           QueryValueAtBar(indicator, bar_index, period)

SpecCache == InitCache /\ [][NextCache]_vars

\* ------------------------------------------------------------------------
\* SpecCalc: direct calls of the IndicatorService calculations
\* ------------------------------------------------------------------------

\* Bound: the longest price list a calculation is called with.
CalcLen == 5

\* Bound: the largest period a calculation is called with.
CalcPeriod == 3

CalcValues == {100, 200, 300}

CalcLists == ListsUpTo(CalcValues, CalcLen)

CalcPeriods == 1..CalcPeriod

InitCalc ==
    /\ prices \in CalcLists
    /\ highs = prices
    /\ lows = prices
    /\ cache = << >>
    /\ call = NoCall
    /\ db_rules = {}
    /\ rng = 0
    /\ SimIdle
    /\ ApiIdle

\* IndicatorService.calculate_rsi(prices, period)
CallCalculateRsi(period) ==
    /\ call = NoCall
    /\ call' = [op |-> "calculate_rsi", period |-> period,
                val |-> calculate_rsi(prices, period)]
    /\ UNCHANGED cachevars
    /\ UNCHANGED simvars
    /\ UNCHANGED apivars

\* IndicatorService.calculate_rsi_series(prices, period)
CallCalculateRsiSeries(period) ==
    /\ call = NoCall
    /\ call' = [op |-> "calculate_rsi_series", period |-> period,
                series |-> calculate_rsi_series(prices, period)]
    /\ UNCHANGED cachevars
    /\ UNCHANGED simvars
    /\ UNCHANGED apivars

\* IndicatorService.calculate_macd(prices, fast, slow, signal).  The call
\* record keeps the function's aligned_fast, slow_ema_series and macd_series
\* next to what it returned.
CallCalculateMacd(fast_period, slow_period, signal_period) ==
    /\ call = NoCall
    /\ call' = [op |-> "calculate_macd", fast_period |-> fast_period,
                slow_period |-> slow_period, signal_period |-> signal_period,
                aligned_fast |->
                    aligned_fast(calculate_ema_series(fine(prices), fast_period),
                                 fast_period, slow_period),
                slow_ema_series |-> calculate_ema_series(fine(prices), slow_period),
                macd_series |-> macd_series(fine(prices), fast_period, slow_period),
                val |-> calculate_macd(prices, fast_period, slow_period,
                                       signal_period)]
    /\ UNCHANGED cachevars
    /\ UNCHANGED simvars
    /\ UNCHANGED apivars

\* The multipliers a caller passes as std_dev: 2.0 (the default), 0.0, -1.0.
Multipliers == {200, 0, -100}

\* IndicatorService.calculate_bollinger_bands(prices, period, std_dev)
CallCalculateBollingerBands(period, std_dev) ==
    /\ call = NoCall
    /\ call' = [op |-> "calculate_bollinger_bands", period |-> period,
                std_dev |-> std_dev,
                val |-> calculate_bollinger_bands(prices, period, std_dev)]
    /\ UNCHANGED cachevars
    /\ UNCHANGED simvars
    /\ UNCHANGED apivars

NextCalc ==
    \/ \E period \in CalcPeriods : CallCalculateRsi(period)
    \/ \E period \in CalcPeriods : CallCalculateRsiSeries(period)
    \/ \E fast_period, slow_period, signal_period \in CalcPeriods :
           CallCalculateMacd(fast_period, slow_period, signal_period)
    \/ \E period \in CalcPeriods, std_dev \in Multipliers :
           CallCalculateBollingerBands(period, std_dev)

SpecCalc == InitCalc /\ [][NextCalc]_vars

\* ------------------------------------------------------------------------
\* simulate_bot: mock market data
\* ------------------------------------------------------------------------

\* Bound: the largest duration_days of a SimulationRequest.
MaxDays == 1

\* Bound: the most rule rows a bot has.
MaxRules == 2

\* bars = duration_days * 96
BarsPerDay == 96

base_price == 200000

\* A warm-up of one moving-average period less one: enough samples for the
\* value of the current bar, not for the previous bar's.
warmup_short == 20 - 1

warmup_period == 50

\* `balance += pnl * 10  # 10 units`
Units == 10

\* SimulationRequest.initial_balance's default, 10000.0
DefaultBalance == 1000000

\* The id of the bot profile in the table.
BotId == 1

\* random.seed(a) and random.random() of the process-wide generator.  The
\* generator is Python's; what the model keeps of it is that seed() sets the
\* whole state from its argument and that every draw advances the state and
\* is a function of it.  The stand-in is a linear congruential generator
\* modulo 65537.
random_seed(a) == (a * 7919 + 104729) % 65537

random_next(g) == (g * 75 + 74) % 65537

\* random.uniform(a, b) = a + (b - a) * random(), drawn from state g.
uniform(a, b, g) == a + ((b - a) * g) \div 65537

\* math.sin(k * 0.1) * 20: Bhaskara's rational approximation of the sine on
\* a half period, the angle counted in hundredths of a radian.
sine_wave(k) ==
    LET x == (10 * k) % 628
        y == IF x >= 314 THEN x - 314 ELSE x
        P == y * (314 - y)
        m == (32000 * P) \div (492980 - 4 * P)
    IN  IF x >= 314 THEN -m ELSE m

\* Volatility clustering: 10.0 inside the two bar ranges, else 5.0.
volatility_at(k) ==
    IF (200 < k /\ k < 400) \/ (600 < k /\ k < 800) THEN 1000 ELSE 500

\* One bar of the generation loop: three draws, for the noise of the close
\* and the offsets of the high and the low.
generate_bar(st, k) ==
    LET vol   == volatility_at(k)
        g1    == random_next(st.rng)
        noise == uniform(-vol, vol, g1)
        close_price == base_price + 5 * k + sine_wave(k) + noise
        g2    == random_next(g1)
        high_price == close_price + Abs(uniform(0, vol \div 2, g2))
        g3    == random_next(g2)
        low_price == close_price - Abs(uniform(0, vol \div 2, g3))
    IN  [prices |-> Append(st.prices, close_price),
         highs |-> Append(st.highs, high_price),
         lows |-> Append(st.lows, low_price), rng |-> g3]

\* `for i in range(bars)` from generator state g.
generate(n, g) ==
    iterate(generate_bar,
            [prices |-> << >>, highs |-> << >>, lows |-> << >>, rng |-> g], 0, n)

\* The data drawn from whatever state the process-wide generator is in.
unseeded(g, seed) == g

\* random.seed(seed_val) for the first request of the process only: later
\* runs draw from the state earlier runs left in the shared generator.
seeded_first_request(g, seed) == IF g \in {0, 40503} THEN random_seed(seed) ELSE g

\* The generator state the data is drawn from: random.seed(seed_val)
\* replaces whatever state g the process-wide generator was left in.
seeded(g, seed) == random_seed(seed)

\* ------------------------------------------------------------------------
\* simulate_bot: the rule scan and the execution of one bar
\* ------------------------------------------------------------------------

\* The rows of bot_rules for a bot, ordered by rule_order (the orders of a
\* bot's rows are 1..n, as update_bot_rules writes them).
RECURSIVE ordered_from(_, _)
ordered_from(rows, k) ==
    IF rows = {} THEN << >>
    ELSE IF \E r \in rows : r.rule_order = k
         THEN LET r == CHOOSE x \in rows : x.rule_order = k
              IN  << r >> \o ordered_from(rows \ {r}, k)
         ELSE ordered_from(rows, k + 1)

query_rules(rows, bot_id) ==
    ordered_from({r \in rows : r.bot_profile_id = bot_id}, 1)

\* period = 14, or 20 for SMA and EMA
rule_period(indicator) == IF indicator \in {"SMA", "EMA"} THEN 20 ELSE 14

\* target = rule.value or 0
rule_target(value) == IF IsNone(value) THEN 0 ELSE Val(value)

\* action_triggered = None, trigger_reason = ""
NoMatch(c, e) ==
    [action |-> "None", rule_order |-> 0, actual |-> 0, cache |-> c, exc |-> e,
     broke |-> FALSE]

\* The end of one rule's turn: m is what evaluate() returned on the cache v
\* left, v what the logging read of the value returned.
scan_match(st, rule, ps, bar, v, m) ==
    IF v.exc # "none"
    THEN [NoMatch(v.cache, v.exc) EXCEPT !.broke = TRUE]
    ELSE IF m.exc # "none"
    THEN [NoMatch(m.cache, m.exc) EXCEPT !.broke = TRUE]
    ELSE IF m.ret
    THEN [action |-> rule.action, rule_order |-> rule.rule_order,
          actual |-> IF IsNone(v.val) THEN ps[bar + 1] ELSE Val(v.val),
          cache |-> m.cache, exc |-> "none", broke |-> TRUE]
    ELSE [st EXCEPT !.cache = m.cache]

\* evaluate() of a rule on the cache the logging read v left.
scan_evaluate(st, rule, ps, bar, v) ==
    scan_match(st, rule, ps, bar, v,
               evaluate(ps, v.cache, rule.indicator, rule.operator,
                        rule_target(rule.value), bar, rule_period(rule.indicator)))

\* scan_rule without `if not rule.is_enabled: continue`.
scan_rule_any(st, rule, ps, bar) ==
    IF st.broke THEN st
    ELSE scan_evaluate(st, rule, ps, bar,
                       get_value_at_bar(ps, st.cache, rule.indicator, bar,
                                        rule_period(rule.indicator)))

\* scan_rule without the `break`: a later rule that matches replaces the
\* action of an earlier one.
scan_rule_no_break(st, rule, ps, bar) ==
    IF st.exc # "none" \/ ~rule.is_enabled THEN st
    ELSE scan_evaluate(st, rule, ps, bar,
                       get_value_at_bar(ps, st.cache, rule.indicator, bar,
                                        rule_period(rule.indicator)))

\* One rule of `for rule in rules:` at a bar.  st.broke is set by `break`:
\* once it is, the remaining rules are not looked at.
scan_rule(st, rule, ps, bar) ==
    IF st.broke \/ ~rule.is_enabled THEN st
    ELSE scan_evaluate(st, rule, ps, bar,
                       get_value_at_bar(ps, st.cache, rule.indicator, bar,
                                        rule_period(rule.indicator)))

\* `for rule in rules:` of one bar: disabled rules are skipped, and the
\* first rule evaluate() accepts sets action_triggered and breaks.
scan_rules(rs, ps, c, bar) ==
    LET step(st, k) == scan_rule(st, rs[k + 1], ps, bar)
    IN  iterate(step, NoMatch(c, "none"), 0, Len(rs))

\* The pnl of a buy, whatever the side of the position.
trade_pnl_long_only(pos, entry, current_price) == current_price - entry

\* pnl of a close: (current - entry) for a buy, (entry - current) otherwise.
trade_pnl(pos, entry, current_price) ==
    IF pos = "buy" THEN current_price - entry ELSE entry - current_price

\* The virtual state simulate_bot keeps across bars.
Book(pos, entry, bal, tr, rs) ==
    [position |-> pos, entry_price |-> entry, balance |-> bal,
     trades |-> tr, reasons |-> rs]

\* One line of `reasons`: the bar, BUY, SELL or CLOSE, the price or the pnl
\* it prints, and the trigger_reason (the rule's order and the value read).
reason_line(bar, event, amount, m) ==
    [bar |-> bar, event |-> event, amount |-> amount,
     rule_order |-> m.rule_order, actual |-> m.actual]

\* position = side; entry_price = current_price; reasons.append(...)
open_position(side, event, book, m, bar, current_price) ==
    Book(side, current_price, book.balance, book.trades,
         Append(book.reasons, reason_line(bar, event, current_price, m)))

\* The close branch: the pnl, the balance, the trade record, the reason,
\* position = None.
close_position(book, m, bar, current_price, pnl) ==
    Book("None", book.entry_price, book.balance + pnl * Units,
         Append(book.trades,
                [bar |-> bar, type |-> book.position, entry |-> book.entry_price,
                 exit |-> current_price, pnl |-> pnl * Units]),
         Append(book.reasons, reason_line(bar, "CLOSE", pnl * Units, m)))

\* execute where Buy and Sell test `position != side` instead of
\* `position is None`: an opposite signal reverses an open position.
execute_reversing(book, m, bar, current_price) ==
    IF m.action \in {"None", ""} THEN book
    ELSE IF m.action = "Buy" /\ book.position # "buy"
    THEN open_position("buy", "BUY", book, m, bar, current_price)
    ELSE IF m.action = "Sell" /\ book.position # "sell"
    THEN open_position("sell", "SELL", book, m, bar, current_price)
    ELSE IF m.action = "Close Position" /\ book.position # "None"
    THEN close_position(book, m, bar, current_price,
                        trade_pnl(book.position, book.entry_price, current_price))
    ELSE book

\* execute where Buy and Sell do not test the position: a repeated signal
\* re-enters at the current price.
execute_pyramiding(book, m, bar, current_price) ==
    IF m.action \in {"None", ""} THEN book
    ELSE IF m.action = "Buy" /\ book.position \in {"None", "buy"}
    THEN open_position("buy", "BUY", book, m, bar, current_price)
    ELSE IF m.action = "Sell" /\ book.position \in {"None", "sell"}
    THEN open_position("sell", "SELL", book, m, bar, current_price)
    ELSE IF m.action = "Close Position" /\ book.position # "None"
    THEN close_position(book, m, bar, current_price,
                        trade_pnl(book.position, book.entry_price, current_price))
    ELSE book

\* execute where a close leaves the trade log alone.
execute_unlogged_close(book, m, bar, current_price) ==
    IF m.action \in {"None", ""} THEN book
    ELSE IF m.action = "Buy" /\ book.position = "None"
    THEN open_position("buy", "BUY", book, m, bar, current_price)
    ELSE IF m.action = "Sell" /\ book.position = "None"
    THEN open_position("sell", "SELL", book, m, bar, current_price)
    ELSE IF m.action = "Close Position" /\ book.position # "None"
    THEN [close_position(book, m, bar, current_price,
                         trade_pnl(book.position, book.entry_price, current_price))
             EXCEPT !.trades = book.trades]
    ELSE book

\* The `# Execution` block of one bar: what a triggered action does to the
\* position, the entry price, the balance, the trade log and the reasons.
execute(book, m, bar, current_price) ==
    IF m.action \in {"None", ""} THEN book
    ELSE IF m.action = "Buy" /\ book.position = "None"
    THEN open_position("buy", "BUY", book, m, bar, current_price)
    ELSE IF m.action = "Sell" /\ book.position = "None"
    THEN open_position("sell", "SELL", book, m, bar, current_price)
    ELSE IF m.action = "Close Position" /\ book.position # "None"
    THEN close_position(book, m, bar, current_price,
                        trade_pnl(book.position, book.entry_price, current_price))
    ELSE book

\* ------------------------------------------------------------------------
\* Spec: simulation requests on a bot
\* ------------------------------------------------------------------------

\* The rules a bot's list is made of (value is Optional[float]).
RulePool ==
    { [indicator |-> "RSI", operator |-> "less_than", value |-> Some(5000),
       action |-> "Buy", is_enabled |-> TRUE],
      [indicator |-> "RSI", operator |-> "greater_than", value |-> Some(6500),
       action |-> "Sell", is_enabled |-> TRUE],
      [indicator |-> "EMA", operator |-> "crosses_above", value |-> Some(200000),
       action |-> "Close Position", is_enabled |-> TRUE],
      [indicator |-> "SMA", operator |-> "greater_than", value |-> None,
       action |-> "Close Position", is_enabled |-> TRUE],
      [indicator |-> "Price", operator |-> "greater_than", value |-> Some(0),
       action |-> "Sell", is_enabled |-> FALSE] }

\* The lists of up to n distinct rules of the pool.
RECURSIVE RuleListsUpTo(_)
RuleListsUpTo(n) ==
    IF n = 0 THEN {<< >>}
    ELSE LET shorter == RuleListsUpTo(n - 1)
         IN  shorter \cup
             {Append(l, x) : l \in {m \in shorter : Len(m) = n - 1},
                             x \in RulePool}

RuleLists ==
    {l \in RuleListsUpTo(MaxRules) :
        \A a, b \in 1..Len(l) : a # b => l[a] # l[b]}

\* The rows update_bot_rules writes for a list: rule_order = index + 1.
rows_of(l) ==
    { [bot_profile_id |-> BotId, rule_order |-> k, indicator |-> l[k].indicator,
       operator |-> l[k].operator, value |-> l[k].value, action |-> l[k].action,
       is_enabled |-> l[k].is_enabled] : k \in 1..Len(l) }

Durations == (-1)..MaxDays

Balances == {DefaultBalance}

\* The states the process-wide generator may be in when the first request
\* arrives (it is seeded from the operating system at import).
RngStates == {0, 40503}

Init ==
    /\ prices = << >>
    /\ highs = << >>
    /\ lows = << >>
    /\ cache = << >>
    /\ call = NoCall
    /\ db_rules \in {rows_of(l) : l \in RuleLists}
    /\ rng \in RngStates
    /\ SimIdle
    /\ ApiIdle

\* simulate_bot without the `if not rules` return: a bot without rules is
\* simulated like any other.
SimulateNoRulesSilently(duration_days, initial_balance) ==
    /\ pc = "idle"
    /\ query_rules(db_rules, BotId) = << >>
    /\ seed_val' = BotId + duration_days
    /\ bars' = duration_days * BarsPerDay
    /\ \E data \in {generate(duration_days * BarsPerDay,
                              seeded(rng, BotId + duration_days))} :
           /\ prices' = data.prices
           /\ highs' = data.highs
           /\ lows' = data.lows
           /\ rng' = data.rng
    /\ rules' = << >>
    /\ request' = [bot_id |-> BotId, duration_days |-> duration_days,
                   initial_balance |-> initial_balance]
    /\ balance' = initial_balance
    /\ position' = "None"
    /\ entry_price' = 0
    /\ trades' = << >>
    /\ reasons' = << >>
    /\ cache' = << >>
    /\ i' = warmup_period
    /\ pc' = "loop"
    /\ UNCHANGED << call, db_rules, action_triggered, trigger_rule, response,
                    previous >>
    /\ UNCHANGED apivars

\* simulate_bot on a bot without rules: the warning response, before any
\* seeding or data generation.
SimulateNoRules(duration_days, initial_balance) ==
    /\ pc = "idle"
    /\ query_rules(db_rules, BotId) = << >>
    /\ pc' = "done"
    /\ request' = [bot_id |-> BotId, duration_days |-> duration_days,
                   initial_balance |-> initial_balance]
    /\ response' = [status |-> "warning", total_trades |-> 0, net_profit |-> 0,
                    trade_log |-> << >>,
                    reasons |-> << "No logic rules defined." >>]
    /\ UNCHANGED << prices, highs, lows, cache, call, db_rules, rng, rules,
                    seed_val, bars, i, balance, position, entry_price, trades,
                    reasons, action_triggered, trigger_rule, previous >>
    /\ UNCHANGED apivars

\* simulate_bot, steps 1 to 4: the rules, the seed, the mock data, the
\* virtual state and a fresh IndicatorCache.
SimulateStart(duration_days, initial_balance) ==
    /\ pc = "idle"
    /\ query_rules(db_rules, BotId) # << >>
    /\ seed_val' = BotId + duration_days
    /\ bars' = duration_days * BarsPerDay
    /\ \E data \in {generate(duration_days * BarsPerDay,
                              seeded(rng, BotId + duration_days))} :
           /\ prices' = data.prices
           /\ highs' = data.highs
           /\ lows' = data.lows
           /\ rng' = data.rng
    /\ rules' = query_rules(db_rules, BotId)
    /\ request' = [bot_id |-> BotId, duration_days |-> duration_days,
                   initial_balance |-> initial_balance]
    /\ balance' = initial_balance
    /\ position' = "None"
    /\ entry_price' = 0
    /\ trades' = << >>
    /\ reasons' = << >>
    /\ cache' = << >>
    /\ i' = warmup_period
    /\ pc' = "loop"
    /\ UNCHANGED << call, db_rules, action_triggered, trigger_rule, response,
                    previous >>
    /\ UNCHANGED apivars

\* One iteration of `for i in range(warmup_period, bars)`: the rule scan,
\* then the execution of the triggered action.
SimulateBar ==
    /\ pc = "loop"
    /\ i < bars
    /\ \E m \in {scan_rules(rules, prices, cache, i)} :
       \E book \in {execute(Book(position, entry_price, balance, trades, reasons),
                             m, i, prices[i + 1])} :
           /\ cache' = m.cache
           /\ action_triggered' = m.action
           /\ trigger_rule' = m.rule_order
           /\ position' = book.position
           /\ entry_price' = book.entry_price
           /\ balance' = book.balance
           /\ trades' = book.trades
           /\ reasons' = book.reasons
           /\ IF m.exc = "none"
              THEN /\ i' = i + 1
                   /\ pc' = "loop"
                   /\ response' = response
              ELSE /\ i' = i
                   /\ pc' = "done"
                   /\ response' = [status |-> "error", exc |-> m.exc]
    /\ UNCHANGED << prices, highs, lows, call, db_rules, rng, request, rules,
                    seed_val, bars, previous >>
    /\ UNCHANGED apivars

\* round(x, 2) if x else None
summary_of(v) == IF IsNone(v) \/ v = Some(0) THEN None ELSE v

\* After the loop: net_profit, the final indicator summary and the response.
SimulateFinish ==
    /\ pc = "loop"
    /\ i >= bars
    /\ \E final_rsi \in {get_value_at_bar(prices, cache, "RSI", bars - 1, 14)} :
       \E final_sma \in {get_value_at_bar(prices, final_rsi.cache, "SMA", bars - 1, 20)} :
           /\ cache' = final_sma.cache
           /\ response' = [status |-> "ok", bars |-> bars, seed |-> seed_val,
                           final_rsi |-> summary_of(final_rsi.val),
                           final_sma |-> summary_of(final_sma.val),
                           total_trades |-> Len(trades),
                           net_profit |-> balance - request.initial_balance,
                           trade_log |-> trades,
                           reasons |-> LastN(reasons, 20)]
    /\ pc' = "done"
    /\ UNCHANGED << prices, highs, lows, call, db_rules, rng, request, rules,
                    seed_val, bars, i, balance, position, entry_price, trades,
                    reasons, action_triggered, trigger_rule, previous >>
    /\ UNCHANGED apivars

\* The handler returns: its locals are gone, the response went to the
\* client.  `previous` keeps the finished run for comparison with the next.
SimulateReturn ==
    /\ pc = "done"
    /\ previous' = [status |-> "run", request |-> request, rules |-> rules,
                    response |-> response, prices |-> prices, highs |-> highs,
                    lows |-> lows, seed_val |-> seed_val]
    /\ pc' = "idle"
    /\ request' = NoRun
    /\ response' = NoRun
    /\ rules' = << >>
    /\ seed_val' = 0
    /\ bars' = 0
    /\ i' = 0
    /\ balance' = 0
    /\ position' = "None"
    /\ entry_price' = 0
    /\ trades' = << >>
    /\ reasons' = << >>
    /\ action_triggered' = "None"
    /\ trigger_rule' = 0
    /\ prices' = << >>
    /\ highs' = << >>
    /\ lows' = << >>
    /\ cache' = << >>
    /\ UNCHANGED << call, db_rules, rng >>
    /\ UNCHANGED apivars

Next ==
    \/ \E d \in Durations, b \in Balances : SimulateNoRules(d, b)
    \/ \E d \in Durations, b \in Balances : SimulateStart(d, b)
    \/ SimulateBar
    \/ SimulateFinish
    \/ SimulateReturn

Spec == Init /\ [][Next]_vars

\* ------------------------------------------------------------------------
\* SpecLong: simulation requests of several days on chosen rule lists
\* ------------------------------------------------------------------------

\* Bound: the duration_days of the long requests.
LongDays == 3

LongDurations == {1, LongDays}

\* A rule row's fields, enabled.
Rule(indicator, operator, value, action) ==
    [indicator |-> indicator, operator |-> operator, value |-> value,
     action |-> action, is_enabled |-> TRUE]

\* The rule lists of the long requests: none; a Wait rule (a valid action
\* of update_bot_rules) ahead of a Buy; a Buy and a Close that alternate
\* often; a Buy ahead of a rule with an action the engine does not know.
ScenarioLists ==
    { << >>,
      << Rule("Price", "greater_than", Some(0), "Wait"),
         Rule("RSI", "less_than", Some(5000), "Buy") >>,
      << Rule("RSI", "less_than", Some(5000), "Buy"),
         Rule("SMA", "greater_than", None, "Close Position") >>,
      << Rule("RSI", "less_than", Some(5000), "Buy"),
         Rule("Price", "greater_than", Some(0), "Hold") >> }

InitLong ==
    /\ prices = << >>
    /\ highs = << >>
    /\ lows = << >>
    /\ cache = << >>
    /\ call = NoCall
    /\ db_rules \in {rows_of(l) : l \in ScenarioLists}
    /\ rng \in RngStates
    /\ SimIdle
    /\ ApiIdle

NextLong ==
    \/ \E d \in LongDurations, b \in Balances : SimulateNoRules(d, b)
    \/ \E d \in LongDurations, b \in Balances : SimulateStart(d, b)
    \/ SimulateBar
    \/ SimulateFinish
    \/ SimulateReturn

SpecLong == InitLong /\ [][NextLong]_vars

\* ------------------------------------------------------------------------
\* Bot control API: rate limiting
\* ------------------------------------------------------------------------

RATE_LIMIT_REQUESTS == 10

RATE_LIMIT_WINDOW == 60

\* [ts for ts in timestamps if ts > window_start]
later_than(timestamps, window_start) ==
    LET kept(ts) == ts > window_start
    IN  SelectSeq(timestamps, kept)

\* _rate_limit_store[user_id], an empty list when the key is new.
stored(store, user_id) ==
    IF user_id \in DOMAIN store THEN store[user_id] ELSE << >>

\* The store with the list of user_id set to timestamps.
store_put(store, user_id, timestamps) ==
    [k \in (DOMAIN store) \cup {user_id} |->
        IF k = user_id THEN timestamps ELSE store[k]]

\* The limit test with > in the place of >=: one request more goes through.
limit_reached_late(timestamps) == Len(timestamps) > RATE_LIMIT_REQUESTS

\* len(_rate_limit_store[user_id]) >= RATE_LIMIT_REQUESTS
limit_reached(timestamps) == Len(timestamps) >= RATE_LIMIT_REQUESTS

\* check_rate_limit(user_id) at time t: what it returns and the store it
\* leaves.  The old entries are removed whether the call is accepted or
\* not; only an accepted call is appended.
check_rate_limit(store, user_id, t) ==
    IF limit_reached(later_than(stored(store, user_id), t - RATE_LIMIT_WINDOW))
    THEN [ret |-> FALSE,
          store |-> store_put(store, user_id,
                       later_than(stored(store, user_id), t - RATE_LIMIT_WINDOW))]
    ELSE [ret |-> TRUE,
          store |-> store_put(store, user_id,
                       Append(later_than(stored(store, user_id),
                                         t - RATE_LIMIT_WINDOW), t))]

\* ------------------------------------------------------------------------
\* SpecRate: check_rate_limit calls of two user keys as time passes
\* ------------------------------------------------------------------------

\* Bound: the clock stops here.
MaxTime == 60

\* The seconds between two readings of the clock that differ.
TickSteps == {30}

\* str(user_id) of the single user, and the key emergency_stop uses.
UserKeys == {"1", "emergency_1"}

\* The accepted calls of each key since the start, as the callers saw them.
accepted_calls(c) == IF c.op = "check_rate_limit" THEN c.accepted ELSE << >>

InitRate ==
    /\ prices = << >>
    /\ highs = << >>
    /\ lows = << >>
    /\ cache = << >>
    /\ call = NoCall
    /\ db_rules = {}
    /\ rng = 0
    /\ SimIdle
    /\ ApiIdle

\* check_rate_limit(user_id), called when the clock reads `now`.
CallCheckRateLimit(user_id) ==
    /\ \E r \in {check_rate_limit(rate_limit_store, user_id, now)} :
          /\ rate_limit_store' = r.store
          /\ call' = [op |-> "check_rate_limit", user_id |-> user_id,
                      at |-> now, ret |-> r.ret,
                      accepted |->
                          IF r.ret
                          THEN store_put(accepted_calls(call), user_id,
                                   Append(stored(accepted_calls(call), user_id), now))
                          ELSE accepted_calls(call)]
    /\ UNCHANGED << db_bots, now >>
    /\ UNCHANGED cachevars
    /\ UNCHANGED simvars

\* Time passes.
Tick(seconds) ==
    /\ now + seconds <= MaxTime
    /\ now' = now + seconds
    /\ UNCHANGED << db_bots, rate_limit_store, call >>
    /\ UNCHANGED cachevars
    /\ UNCHANGED simvars

NextRate ==
    \/ \E user_id \in UserKeys : CallCheckRateLimit(user_id)
    \/ \E seconds \in TickSteps : Tick(seconds)

SpecRate == InitRate /\ [][NextRate]_vars

\* ------------------------------------------------------------------------
\* Bot control API: state transitions and rule updates
\* ------------------------------------------------------------------------

\* VALID_TRANSITIONS
VALID_TRANSITIONS ==
    [stopped |-> {"start"}, running |-> {"stop", "pause"},
     paused |-> {"start", "stop"}]

\* Every action allowed in every state the table knows.
allowed_in_any_state(current_state) ==
    IF current_state \in DOMAIN VALID_TRANSITIONS
    THEN {"start", "stop", "pause"} ELSE {}

\* VALID_TRANSITIONS.get(current_state, [])
allowed(current_state) ==
    IF current_state \in DOMAIN VALID_TRANSITIONS
    THEN VALID_TRANSITIONS[current_state] ELSE {}

validate_transition(current_state, action) == action \in allowed(current_state)

\* A bot_profiles row, as far as the control endpoints read and write it.
BotRow(bot_state, is_active) == [bot_state |-> bot_state, is_active |-> is_active]

\* A bot_state column that holds no value.
Null == "NULL"

\* bot.bot_state or "stopped"
state_or_stopped(bot_state) ==
    IF bot_state \in {Null, ""} THEN "stopped" ELSE bot_state

\* pause_bot also clearing is_active, as stop_bot does.
moved_pause_inactive(row, action) ==
    IF action = "start" THEN BotRow("running", TRUE)
    ELSE BotRow(IF action = "stop" THEN "stopped" ELSE "paused", FALSE)

\* The row after the assignments of start_bot, stop_bot or pause_bot:
\* pause_bot sets bot_state only.
moved(row, action) ==
    IF action = "start" THEN BotRow("running", TRUE)
    ELSE IF action = "stop" THEN BotRow("stopped", FALSE)
    ELSE BotRow("paused", row.is_active)

\* The table with the row of bot_id replaced.
bot_set(bots, bot_id, row) ==
    [k \in (DOMAIN bots) \cup {bot_id} |-> IF k = bot_id THEN row ELSE bots[k]]

\* What an endpoint answers and leaves: the status code, the reason of a
\* rejection, the bot table, the rule table and the rate limit store.
Reply(code, detail, bots, rows, store) ==
    [code |-> code, detail |-> detail, bots |-> bots, rules |-> rows,
     store |-> store]

\* start_bot, stop_bot and pause_bot: the rate limit, the lookup, the
\* transition check, then the assignment and the commit.  `limit` is what
\* check_rate_limit returned for the user's key.
control_bot(bots, rows, limit, bot_id, action) ==
    IF ~limit.ret
    THEN Reply(429, "rate_limit", bots, rows, limit.store)
    ELSE IF bot_id \notin DOMAIN bots
    THEN Reply(404, "not_found", bots, rows, limit.store)
    ELSE IF ~validate_transition(state_or_stopped(bots[bot_id].bot_state), action)
    THEN Reply(400, "invalid_transition", bots, rows, limit.store)
    ELSE Reply(200, "", bot_set(bots, bot_id, moved(bots[bot_id], action)),
               rows, limit.store)

\* emergency_stop: every row whose bot_state != "stopped" is stopped.
emergency_stop(bots, rows, limit) ==
    IF ~limit.ret
    THEN Reply(429, "rate_limit", bots, rows, limit.store)
    ELSE Reply(200, "",
               [k \in DOMAIN bots |->
                   IF bots[k].bot_state \notin {Null, "stopped"}
                   THEN BotRow("stopped", FALSE) ELSE bots[k]],
               rows, limit.store)

\* create_bot: a new row with the next id, bot_state "stopped" and the
\* column default of is_active.
create_bot(bots) == bot_set(bots, Cardinality(DOMAIN bots) + 1, BotRow("stopped", FALSE))

\* The safety lock on running bots only.
locked_when_running(bot_state) == bot_state = "running"

\* bot.bot_state in ["running", "paused"]
locked(bot_state) == bot_state \in {"running", "paused"}

valid_actions == {"Buy", "Sell", "Close Position", "Wait"}

\* Wait counted among the terminal actions.
terminal_actions_and_wait == {"Buy", "Sell", "Close Position", "Wait"}

terminal_actions == {"Buy", "Sell", "Close Position"}

\* The rows inserted for the rules of an update: rule_order = index + 1.
new_rows(bot_id, update_rules) ==
    { [bot_profile_id |-> bot_id, rule_order |-> k,
       indicator |-> update_rules[k].indicator,
       operator |-> update_rules[k].operator, value |-> update_rules[k].value,
       action |-> update_rules[k].action,
       is_enabled |-> update_rules[k].is_enabled] : k \in 1..Len(update_rules) }

\* update_bot_rules: the lookup, the safety lock, the empty protection and
\* the validation of the actions, then the deletion of the bot's rows and
\* the insertion of the new ones.
update_bot_rules(bots, rows, store, bot_id, update_rules, confirm_empty) ==
    IF bot_id \notin DOMAIN bots
    THEN Reply(404, "not_found", bots, rows, store)
    ELSE IF locked(bots[bot_id].bot_state)
    THEN Reply(400, "locked", bots, rows, store)
    ELSE IF update_rules = << >> /\ ~confirm_empty
    THEN Reply(400, "empty", bots, rows, store)
    ELSE IF \E k \in 1..Len(update_rules) : update_rules[k].action \notin valid_actions
    THEN Reply(400, "invalid_action", bots, rows, store)
    ELSE IF update_rules # << >>
            /\ \A k \in 1..Len(update_rules) :
                   update_rules[k].action \notin terminal_actions
    THEN Reply(400, "no_terminal", bots, rows, store)
    ELSE Reply(200, "", bots,
               {row \in rows : row.bot_profile_id # bot_id}
                   \cup new_rows(bot_id, update_rules),
               store)

\* ------------------------------------------------------------------------
\* SpecBots: requests to the bot control API within one minute
\* ------------------------------------------------------------------------

\* The ids of the bots that get created.
BotIds == {1, 2}

\* The rule lists of the update requests: none, a Buy, a Wait alone, and a
\* Buy followed by an action that is not valid.
UpdateLists ==
    { << >>,
      << Rule("RSI", "less_than", Some(5000), "Buy") >>,
      << Rule("Price", "greater_than", Some(0), "Wait") >>,
      << Rule("RSI", "less_than", Some(5000), "Buy"),
         Rule("Price", "greater_than", Some(0), "Hold") >> }

\* The bot states of the direct calls of validate_transition.
TransitionStates == {"stopped", "running", "paused", "unknown"}

ControlActions == {"start", "stop", "pause"}

InitBots ==
    /\ prices = << >>
    /\ highs = << >>
    /\ lows = << >>
    /\ cache = << >>
    /\ call = NoCall
    /\ db_rules = {}
    /\ rng = 0
    /\ SimIdle
    /\ ApiIdle

\* The variables no control endpoint touches.
othervars == << prices, highs, lows, cache, rng, pc, request, rules, seed_val,
                bars, i, balance, position, entry_price, trades, reasons,
                action_triggered, trigger_rule, response, previous, now >>

\* validate_transition(current_state, action), called directly.
CallValidateTransition(current_state, action) ==
    /\ call' = [op |-> "validate_transition", current_state |-> current_state,
                action |-> action,
                ret |-> validate_transition(current_state, action)]
    /\ UNCHANGED << db_bots, db_rules, rate_limit_store >>
    /\ UNCHANGED othervars

\* POST /
CreateBot ==
    /\ Cardinality(DOMAIN db_bots) + 1 \in BotIds
    /\ db_bots' = create_bot(db_bots)
    /\ call' = [op |-> "create_bot", bot_id |-> Cardinality(DOMAIN db_bots) + 1,
                code |-> 201, detail |-> ""]
    /\ UNCHANGED << db_rules, rate_limit_store >>
    /\ UNCHANGED othervars

\* POST /{bot_id}/start, /stop and /pause
ControlBot(bot_id, action) ==
    /\ \E r \in {control_bot(db_bots, db_rules,
                             check_rate_limit(rate_limit_store, "1", now),
                             bot_id, action)} :
          /\ db_bots' = r.bots
          /\ db_rules' = r.rules
          /\ rate_limit_store' = r.store
          /\ call' = [op |-> action, bot_id |-> bot_id, code |-> r.code,
                      detail |-> r.detail]
    /\ UNCHANGED othervars

StartBot(bot_id) == ControlBot(bot_id, "start")

StopBot(bot_id) == ControlBot(bot_id, "stop")

PauseBot(bot_id) == ControlBot(bot_id, "pause")

\* POST /emergency-stop
EmergencyStop ==
    /\ \E r \in {emergency_stop(db_bots, db_rules,
                                check_rate_limit(rate_limit_store,
                                                 "emergency_1", now))} :
          /\ db_bots' = r.bots
          /\ db_rules' = r.rules
          /\ rate_limit_store' = r.store
          /\ call' = [op |-> "emergency_stop", bot_id |-> 0, code |-> r.code,
                      detail |-> r.detail]
    /\ UNCHANGED othervars

\* PUT /{bot_id}/rules
UpdateBotRules(bot_id, update_rules, confirm_empty) ==
    /\ \E r \in {update_bot_rules(db_bots, db_rules, rate_limit_store, bot_id,
                                  update_rules, confirm_empty)} :
          /\ db_bots' = r.bots
          /\ db_rules' = r.rules
          /\ rate_limit_store' = r.store
          /\ call' = [op |-> "update_bot_rules", bot_id |-> bot_id,
                      code |-> r.code, detail |-> r.detail,
                      rules |-> update_rules, confirm_empty |-> confirm_empty]
    /\ UNCHANGED othervars

NextBots ==
    \/ \E current_state \in TransitionStates, action \in ControlActions :
           CallValidateTransition(current_state, action)
    \/ CreateBot
    \/ \E bot_id \in BotIds : StartBot(bot_id)
    \/ \E bot_id \in BotIds : StopBot(bot_id)
    \/ \E bot_id \in BotIds : PauseBot(bot_id)
    \/ EmergencyStop
    \/ \E bot_id \in BotIds, update_rules \in UpdateLists,
          confirm_empty \in BOOLEAN :
           UpdateBotRules(bot_id, update_rules, confirm_empty)

SpecBots == InitBots /\ [][NextBots]_vars

\* ------------------------------------------------------------------------
\* Claims on the evaluator and the cache (SpecEval)
\* ------------------------------------------------------------------------

\* What a fresh cache over the same prices returns for the call's bar.
ValueAt(bar_index) ==
    get_value_at_bar(prices, << >>, call.indicator, bar_index, call.period).val

\* C8: RuleEvaluator.evaluate never raises and fails closed: it returns
\* False when the current value is absent, when the operator is a cross and
\* the previous bar's value is absent, and when the operator is not one it
\* knows.
C8_EvaluateFailsClosed ==
    call.op = "evaluate" =>
        /\ call.exc = "none"
        /\ IsNone(ValueAt(call.bar_index)) => call.ret = FALSE
        /\ (call.operator \in CrossOperators /\ IsNone(ValueAt(call.bar_index - 1)))
               => call.ret = FALSE
        /\ call.operator \notin KnownOperators => call.ret = FALSE

\* C8 witness: a crosses_above call whose current value is above the target
\* and whose previous bar has no value returned False.
C8_Witness ==
    /\ call.op = "evaluate"
    /\ call.operator = "crosses_above"
    /\ ~IsNone(ValueAt(call.bar_index))
    /\ Val(ValueAt(call.bar_index)) > call.target_value
    /\ IsNone(ValueAt(call.bar_index - 1))
    /\ call.exc = "none"
    /\ call.ret = FALSE

\* C9: the bar-index mapping of get_value_at_bar.  SMA and EMA at bar b are
\* the series entry b - p + 1, defined exactly for p - 1 <= b <= N - 1; RSI
\* is the series entry b - p, defined exactly for p <= b <= N - 1 and within
\* [0, 100]; Price is prices[b], defined exactly for 0 <= b <= N - 1.
C9_BarIndexMapping ==
    (call.op = "get_value_at_bar" /\ upper(call.indicator) \in {"PRICE", "SMA", "EMA", "RSI"}) =>
        LET N == Len(prices)
            b == call.bar_index
            p == call.period
            kind == upper(call.indicator)
            first == CASE kind = "PRICE" -> 0
                       [] kind = "RSI" -> p
                       [] OTHER -> p - 1
            series == CASE kind = "PRICE" -> prices
                        [] kind = "RSI" -> calculate_rsi_series(prices, p)
                        [] kind = "SMA" -> sma_series(prices, p)
                        [] OTHER -> calculate_ema_series(prices, p)
        IN  /\ call.exc = "none"
            /\ ~IsNone(call.val) <=> (first <= b /\ b <= N - 1)
            /\ ~IsNone(call.val) =>
                   /\ b - first + 1 \in 1..Len(series)
                   /\ Val(call.val) = series[b - first + 1]
                   /\ kind = "RSI" => (0 <= Val(call.val) /\ Val(call.val) <= 10000)

\* C9 witness: an RSI read at its first defined bar (b = p) returned a
\* value, on a list with more than p + 1 prices.
C9_Witness ==
    /\ call.op = "get_value_at_bar"
    /\ call.indicator = "RSI"
    /\ call.bar_index = call.period
    /\ Len(prices) > call.period + 1
    /\ ~IsNone(call.val)
    /\ Val(call.val) = calculate_rsi_series(prices, call.period)[1]

\* C10 (the claim as stated): for MACD, Bollinger Bands, ATR and Stochastic
\* get_value_at_bar is absent at every bar before the warm-up (period - 1,
\* or period for ATR).
C10_AbsentBeforeWarmup ==
    (call.op = "get_value_at_bar"
        /\ call.indicator \in {"MACD", "Bollinger Bands", "ATR", "Stochastic"}
        /\ call.bar_index < (IF call.indicator = "ATR" THEN call.period ELSE call.period - 1))
    => IsNone(call.val)

\* ------------------------------------------------------------------------
\* Claims on the simulation (Spec)
\* ------------------------------------------------------------------------

\* The loop is past at least one bar: action_triggered, trigger_rule and
\* the book are what bar i - 1 left.
AfterBar == pc = "loop" /\ i > warmup_period

\* How many lines of a reasons list are of the given events.
CountEvents(rs, events) == Cardinality({k \in 1..Len(rs) : rs[k].event \in events})

\* C1: the position is None (Flat), "buy" (Long) or "sell" (Short) and is
\* None when the loop starts; inside the loop it changes only from None to
\* buy on a triggered Buy, from None to sell on a triggered Sell, and from
\* buy or sell to None on a triggered Close Position, never from buy to
\* sell or back; every opening sets entry_price to the bar's close price.
C1_PositionTransitions ==
    /\ [](position \in {"None", "buy", "sell"})
    /\ []((pc = "loop" /\ i = 50) => position = "None")
    /\ [][(pc = "loop" /\ position' # position) =>
            \/ /\ position = "None" /\ position' = "buy"
               /\ action_triggered' = "Buy"
               /\ entry_price' = prices[i + 1]
            \/ /\ position = "None" /\ position' = "sell"
               /\ action_triggered' = "Sell"
               /\ entry_price' = prices[i + 1]
            \/ /\ position \in {"buy", "sell"} /\ position' = "None"
               /\ action_triggered' = "Close Position"]_vars

\* C1 witness: a position opened at one bar was closed at the bar the loop
\* has just left, and the trade carries the close prices of both bars.
C1_Witness ==
    /\ AfterBar
    /\ position = "None"
    /\ action_triggered = "Close Position"
    /\ Len(trades) >= 1
    /\ trades[Len(trades)].bar = i - 1
    /\ trades[Len(trades)].type = "sell"
    /\ \E b \in warmup_period..(i - 2) : trades[Len(trades)].entry = prices[b + 1]

\* C2: a triggered Buy or Sell at a bar where a position is open, and a
\* triggered Close Position at a bar where none is, leave the position, the
\* entry price, the balance, the trade log and the reasons unchanged.
C2_InapplicableIgnored ==
    [][(pc = "loop" /\ pc' = "loop" /\ i' = i + 1
          /\ \/ action_triggered' \in {"Buy", "Sell"} /\ position # "None"
             \/ action_triggered' = "Close Position" /\ position = "None")
        => UNCHANGED << position, entry_price, balance, trades, reasons >>]_vars

\* C2 witness: the bar just left triggered Sell while the position was a
\* buy opened at an earlier bar, and nothing was logged for it.
C2_Witness ==
    /\ AfterBar
    /\ action_triggered = "Sell"
    /\ position = "buy"
    /\ Len(reasons) = 1
    /\ reasons[1].event = "BUY"
    /\ reasons[1].bar < i - 1
    /\ entry_price = prices[reasons[1].bar + 1]

\* Whether the condition of a rule row holds at a bar, as the evaluator
\* decides it on the loop's cache.
Holds(r, bar) ==
    evaluate(prices, cache, r.indicator, r.operator, rule_target(r.value), bar,
             rule_period(r.indicator)).ret

\* The enabled rows of the bot whose condition holds at a bar.
Matching(bar) ==
    {r \in db_rules : r.bot_profile_id = request.bot_id /\ r.is_enabled /\ Holds(r, bar)}

\* C3: at every evaluated bar the action triggered is that of the enabled
\* row with the smallest rule_order whose condition holds at the bar, and no
\* action when there is none; a line logged for the bar names that row.
C3_FirstMatchWins ==
    AfterBar =>
        /\ Matching(i - 1) = {} => (action_triggered = "None" /\ trigger_rule = 0)
        /\ \A r \in Matching(i - 1) :
              (\A q \in Matching(i - 1) : r.rule_order <= q.rule_order)
                  => /\ action_triggered = r.action
                     /\ trigger_rule = r.rule_order
        /\ \A k \in 1..Len(reasons) :
              reasons[k].bar = i - 1 => reasons[k].rule_order = trigger_rule

\* C3 witness: two enabled rows held at the bar just left, the first asking
\* for Buy and the second for Close Position, and the position is the buy
\* opened at that bar.
C3_Witness ==
    /\ AfterBar
    /\ Cardinality(Matching(i - 1)) = 2
    /\ \E r, q \in Matching(i - 1) :
          /\ r.rule_order < q.rule_order
          /\ r.action = "Buy" /\ q.action = "Close Position"
    /\ action_triggered = "Buy"
    /\ position = "buy"
    /\ reasons # << >>
    /\ reasons[Len(reasons)].bar = i - 1

\* C4: inside the loop the trade log gains exactly one record, after the
\* records it holds, on a step from buy or sell to None, and is unchanged
\* on every other step; so the log is as long as the number of closes, the
\* opens exceed the closes by 1 while a position is open and by 0 while
\* none is, and total_trades of the response is that number of closes.
C4_TradeLogGrowth ==
    /\ [][pc = "loop" =>
            IF position \in {"buy", "sell"} /\ position' = "None"
            THEN /\ Len(trades') = Len(trades) + 1
                 /\ SubSeq(trades', 1, Len(trades)) = trades
            ELSE trades' = trades]_vars
    /\ [](pc \in {"loop", "done"} =>
            /\ Len(trades) = CountEvents(reasons, {"CLOSE"})
            /\ CountEvents(reasons, {"BUY", "SELL"}) - CountEvents(reasons, {"CLOSE"})
                   = IF position = "None" THEN 0 ELSE 1)
    /\ []((pc = "done" /\ response.status = "ok") =>
            response.total_trades = CountEvents(reasons, {"CLOSE"}))

\* C4 witness: a run that ended with a position open after an earlier one
\* was closed: two opens, one close, one trade reported.
C4_Witness ==
    /\ pc = "done"
    /\ response.status = "ok"
    /\ response.total_trades = 1
    /\ position = "buy"
    /\ CountEvents(reasons, {"BUY", "SELL"}) = 2
    /\ CountEvents(reasons, {"CLOSE"}) = 1

RECURSIVE SumPnl(_)
SumPnl(log) == IF log = << >> THEN 0 ELSE log[1].pnl + SumPnl(Tail(log))

C6_Deterministic ==
    (pc = "done" /\ previous.status = "run"
        /\ previous.request = request /\ previous.rules = rules)
    => /\ previous.seed_val = seed_val
       /\ previous.prices = prices
       /\ previous.highs = highs
       /\ previous.lows = lows
       /\ previous.response = response

\* C6 witness: the second of two equal requests on a bot with rules has
\* finished with the trades of the first, and the generator had moved on
\* between the two.
C6_Witness ==
    /\ pc = "done"
    /\ previous.status = "run"
    /\ previous.request = request
    /\ previous.rules = rules
    /\ response.status = "ok"
    /\ response.total_trades >= 1
    /\ previous.response.trade_log = response.trade_log
    /\ Len(prices) = 96
    /\ rng \notin RngStates

\* The value of a rule's indicator the loop requests at a bar, for the
\* indicators that have a period.
Requested(r, bar) ==
    get_value_at_bar(prices, cache, r.indicator, bar, rule_period(r.indicator)).val

\* C7: the loop is never at a bar below 50, so no trade and no reason is of
\* a bar below 50 and a run of fewer than 51 bars has no trade; and at
\* every bar the loop evaluates, RSI(14), SMA(20) and EMA(20) as the rules
\* request them have a value at the bar and at the bar before it.
C7_Warmup ==
    /\ pc = "loop" => i >= 50
    /\ \A k \in 1..Len(trades) : trades[k].bar >= 50
    /\ \A k \in 1..Len(reasons) : reasons[k].bar >= 50
    /\ (pc = "done" /\ response.status = "ok" /\ response.bars < 51)
          => (response.total_trades = 0 /\ reasons = << >>)
    /\ (pc = "loop" /\ i < bars) =>
          \A k \in 1..Len(rules) :
              rules[k].indicator \in {"RSI", "SMA", "EMA"} =>
                  /\ rule_period(rules[k].indicator)
                         = (IF rules[k].indicator = "RSI" THEN 14 ELSE 20)
                  /\ ~IsNone(Requested(rules[k], i))
                  /\ ~IsNone(Requested(rules[k], i - 1))

\* C7 witness: the loop is at bar 50, its first, with an RSI rule and an
\* EMA cross rule whose values at bars 49 and 50 exist, and nothing has
\* been traded or logged.
C7_Witness ==
    /\ pc = "loop"
    /\ i = 50
    /\ bars > 50
    /\ \E k \in 1..Len(rules) : rules[k].indicator = "RSI"
    /\ \E k \in 1..Len(rules) :
          /\ rules[k].indicator = "EMA"
          /\ rules[k].operator = "crosses_above"
          /\ ~IsNone(Requested(rules[k], 49))
          /\ ~IsNone(Requested(rules[k], 50))
    /\ trades = << >>
    /\ reasons = << >>
    /\ position = "None"

\* ------------------------------------------------------------------------
\* Claims on the simulation of chosen rule lists (SpecLong)
\* ------------------------------------------------------------------------

\* The rules of the run without the row of the given rule_order.
RulesWithout(order) == SelectSeq(rules, LAMBDA r : r.rule_order # order)

\* The book a bar leaves when the rule scan is that of the given rules.
BookOf(rs) ==
    execute(Book(position, entry_price, balance, trades, reasons),
            scan_rules(rs, prices, cache, i), i, prices[i + 1])

\* C11 (the claim as stated): at a bar won by a rule whose action is none
\* of Buy, Sell, Close Position, the position, the balance and the trade
\* log after the bar are those the bar leaves without that rule, and the
\* run does not end in an exception.
C11_UnknownActionIsNoMatch ==
    /\ [][(pc = "loop" /\ pc' = "loop" /\ i' = i + 1
             /\ action_triggered' \notin {"None", "Buy", "Sell", "Close Position"})
          => /\ position' = BookOf(RulesWithout(trigger_rule')).position
             /\ balance' = BookOf(RulesWithout(trigger_rule')).balance
             /\ trades' = BookOf(RulesWithout(trigger_rule')).trades]_vars
    /\ [](pc = "done" => response.status # "error")

\* ------------------------------------------------------------------------
\* More claims on the evaluator and the cache (SpecEval)
\* ------------------------------------------------------------------------

\* C12: crosses_above(current, previous, threshold) is previous <= threshold
\* and current > threshold, crosses_below is previous >= threshold and
\* current < threshold (already-above and still-below inputs give False);
\* evaluate with a cross operator at bar b returns that predicate of the
\* indicator's values at bars b and b - 1.
C12_CrossSemantics ==
    /\ crosses_above(7500, 6500, 7000) /\ crosses_above(7500, 7000, 7000)
    /\ ~crosses_above(7500, 7200, 7000) /\ ~crosses_above(6800, 6500, 7000)
    /\ ~crosses_above(7000, 6500, 7000)
    /\ crosses_below(2500, 3500, 3000) /\ crosses_below(2500, 3000, 3000)
    /\ ~crosses_below(2500, 2800, 3000) /\ ~crosses_below(3200, 3500, 3000)
    /\ ~crosses_below(3000, 3500, 3000)
    /\ (call.op = "evaluate" /\ call.operator \in CrossOperators
          /\ ~IsNone(ValueAt(call.bar_index)) /\ ~IsNone(ValueAt(call.bar_index - 1)))
       => LET cur == Val(ValueAt(call.bar_index))
              prev == Val(ValueAt(call.bar_index - 1))
              t == call.target_value
          IN  /\ call.exc = "none"
              /\ call.ret = IF call.operator = "crosses_above"
                            THEN prev <= t /\ cur > t
                            ELSE prev >= t /\ cur < t

\* C12 witness: a crosses_above call returned True with the previous bar's
\* value exactly on the threshold.
C12_Witness ==
    /\ call.op = "evaluate"
    /\ call.operator = "crosses_above"
    /\ ~IsNone(ValueAt(call.bar_index)) /\ ~IsNone(ValueAt(call.bar_index - 1))
    /\ Val(ValueAt(call.bar_index - 1)) = call.target_value
    /\ Val(ValueAt(call.bar_index)) > call.target_value
    /\ call.ret = TRUE

\* C13: with the current value v available, evaluate returns v > t for
\* greater_than, v < t for less_than, v >= t for greater_equal, v <= t for
\* less_equal and |v - t| < 0.01 for equals, whether or not the previous
\* bar has a value.
C13_SimpleOperators ==
    (call.op = "evaluate" /\ call.operator \in SimpleOperators
        /\ ~IsNone(ValueAt(call.bar_index)))
    => LET v == Val(ValueAt(call.bar_index))
           t == call.target_value
       IN  /\ call.exc = "none"
           /\ call.ret =
                CASE call.operator \in {"greater_than", ">"} -> v > t
                  [] call.operator \in {"less_than", "<"} -> v < t
                  [] call.operator \in {"greater_equal", ">="} -> v >= t
                  [] call.operator \in {"less_equal", "<="} -> v <= t
                  [] call.operator \in {"equals", "=="} -> (v - t < 1 /\ t - v < 1)

\* C13 witness: an equals call on a value 0.01 away from the target, at a
\* bar whose previous bar has no value, returned False.
C13_Witness ==
    /\ call.op = "evaluate"
    /\ call.operator = "equals"
    /\ ~IsNone(ValueAt(call.bar_index))
    /\ IsNone(ValueAt(call.bar_index - 1))
    /\ Val(ValueAt(call.bar_index)) - call.target_value = 1
    /\ call.ret = FALSE

\* ------------------------------------------------------------------------
\* Claims on the calculations (SpecCalc)
\* ------------------------------------------------------------------------

\* Every change of the price list is a gain, is a loss, is zero.
AllGains == \A k \in 1..(Len(prices) - 1) : prices[k + 1] > prices[k]

AllLosses == \A k \in 1..(Len(prices) - 1) : prices[k + 1] < prices[k]

NoChange == \A k \in 1..(Len(prices) - 1) : prices[k + 1] = prices[k]

\* The values an RSI call returned: the value, or the elements of the series.
RsiValues ==
    IF call.op = "calculate_rsi"
    THEN (IF IsNone(call.val) THEN {} ELSE {Val(call.val)})
    ELSE {call.series[k] : k \in 1..Len(call.series)}

\* C14: on a list of at least period + 1 prices calculate_rsi returns a value
\* and calculate_rsi_series a non-empty series, all within [0, 100]; they
\* are exactly 100 when every change is a gain, below 1.0 when every change
\* is a loss, and 50 when no price changes.
C14_RsiBounds ==
    (call.op \in {"calculate_rsi", "calculate_rsi_series"}
        /\ Len(prices) >= call.period + 1)
    => /\ RsiValues # {}
       /\ call.op = "calculate_rsi_series"
             => Len(call.series) = Len(prices) - call.period
       /\ \A v \in RsiValues : 0 <= v /\ v <= 10000
       /\ AllGains => RsiValues = {10000}
       /\ AllLosses => \A v \in RsiValues : v < 100
       /\ NoChange => RsiValues = {5000}

\* C14 witness: a series of two or more values strictly inside (0, 100),
\* from a list with gains and losses.
C14_Witness ==
    /\ call.op = "calculate_rsi_series"
    /\ Len(call.series) >= 2
    /\ \A k \in 1..Len(call.series) : 0 < call.series[k] /\ call.series[k] < 10000
    /\ ~AllGains /\ ~AllLosses /\ ~NoChange

\* The EMA of a period at a price bar (0-based), in millionths: the EMA of
\* the prices up to and including that bar.
EmaAtBar(period, bar) == Val(calculate_ema(Take(fine(prices), bar + 1), period))

\* C15: for fast <= slow, calculate_macd is absent exactly when there are
\* fewer than slow + signal prices; otherwise the aligned fast series and
\* the slow series both have N - slow + 1 entries and the k-th MACD value
\* (k from 0) is the fast EMA minus the slow EMA of price bar slow - 1 + k.
C15_MacdAlignment ==
    (call.op = "calculate_macd" /\ call.fast_period <= call.slow_period)
    => /\ IsNone(call.val) <=> Len(prices) < call.slow_period + call.signal_period
       /\ ~IsNone(call.val) =>
             /\ Len(call.aligned_fast) = Len(prices) - call.slow_period + 1
             /\ Len(call.slow_ema_series) = Len(prices) - call.slow_period + 1
             /\ Len(call.macd_series) = Len(prices) - call.slow_period + 1
             /\ \A k \in 0..(Len(call.macd_series) - 1) :
                   call.macd_series[k + 1]
                       = EmaAtBar(call.fast_period, call.slow_period - 1 + k)
                         - EmaAtBar(call.slow_period, call.slow_period - 1 + k)

\* C15 witness: a result with fast < slow whose MACD series has three or
\* more values, not all equal.
C15_Witness ==
    /\ call.op = "calculate_macd"
    /\ call.fast_period < call.slow_period
    /\ ~IsNone(call.val)
    /\ Len(call.macd_series) >= 3
    /\ call.macd_series[1] # call.macd_series[3]

\* C16 (the claim as stated): whenever calculate_macd returns a result, its
\* histogram differs from macd_line - signal_line by less than 0.0001.
C16_HistogramConsistent ==
    (call.op = "calculate_macd" /\ ~IsNone(call.val))
    => LET r == Val(call.val)
       IN  /\ r.histogram - (r.macd_line - r.signal_line) < 100
           /\ (r.macd_line - r.signal_line) - r.histogram < 100

\* C17 (the claim as stated): on a list of at least `period` prices and for
\* every multiplier, calculate_bollinger_bands returns upper >= middle >=
\* lower, and its middle is calculate_sma of the list to within the
\* rounding to 4 decimals.
C17_BollingerOrdering ==
    (call.op = "calculate_bollinger_bands" /\ Len(prices) >= call.period)
    => /\ ~IsNone(call.val)
       /\ Val(call.val).upper >= Val(call.val).middle
       /\ Val(call.val).middle >= Val(call.val).lower
       /\ Abs(Val(call.val).middle
              - Val(calculate_sma(fine(prices), call.period))) <= 50

\* ------------------------------------------------------------------------
\* More claims on the simulation (Spec)
\* ------------------------------------------------------------------------

\* The bot of the requests has no rule row.
NoRulesInDb == \A r \in db_rules : r.bot_profile_id # BotId

\* C18: a request on a bot without rules is answered at once with the
\* warning status, total_trades 0, net_profit 0, an empty trade log and the
\* one reason "No logic rules defined."; no price is generated, the random
\* generator is not touched and no bar is evaluated.
C18_EmptyRuleList ==
    /\ []((NoRulesInDb /\ pc # "idle") =>
            /\ pc = "done"
            /\ response = [status |-> "warning", total_trades |-> 0,
                           net_profit |-> 0, trade_log |-> << >>,
                           reasons |-> << "No logic rules defined." >>]
            /\ prices = << >> /\ highs = << >> /\ lows = << >>
            /\ cache = << >> /\ bars = 0 /\ i = 0
            /\ trades = << >> /\ reasons = << >>)
    /\ [][NoRulesInDb => rng' = rng]_vars
    /\ []((pc = "done" /\ response.status = "warning") => NoRulesInDb)

\* C18 witness: the second request of one day on a bot without rules has
\* been answered with the warning.
C18_Witness ==
    /\ NoRulesInDb
    /\ pc = "done"
    /\ request.duration_days = 1
    /\ previous.status = "run"
    /\ response.status = "warning"
    /\ response.reasons = << "No logic rules defined." >>
    /\ prices = << >>

\* ------------------------------------------------------------------------
\* More claims on the simulation of chosen rule lists (SpecLong)
\* ------------------------------------------------------------------------

\* The number of position changes of the run so far: two per closed trade
\* and one for a position that is open.
PositionChanges == 2 * Len(trades) + (IF position = "None" THEN 0 ELSE 1)

\* C19: the run's reasons are its position changes, one line each in the
\* order of their bars, and the response carries the last min(20, k) of the
\* k lines in that order: never more than 20, and always the latest ones.
C19_ReasonsTail ==
    /\ pc \in {"loop", "done"} =>
          /\ Len(reasons) = PositionChanges
          /\ \A k \in 1..Len(reasons) :
                /\ reasons[k].event \in {"BUY", "SELL", "CLOSE"}
                /\ k > 1 => reasons[k - 1].bar < reasons[k].bar
    /\ (pc = "done" /\ response.status = "ok") =>
          LET k == Len(reasons)
              n == Len(response.reasons)
          IN  /\ n = (IF k < 20 THEN k ELSE 20)
              /\ \A j \in 1..n : response.reasons[j] = reasons[k - n + j]

\* C19 witness: a finished run with more than 20 position changes whose
\* response holds 20 lines, the last being the run's last.
C19_Witness ==
    /\ pc = "done"
    /\ response.status = "ok"
    /\ PositionChanges > 20
    /\ Len(reasons) > 20
    /\ Len(response.reasons) = 20
    /\ response.reasons[20] = reasons[Len(reasons)]
    /\ response.reasons[1] # reasons[1]

\* ------------------------------------------------------------------------
\* Claims on the cache's memoization (SpecCache)
\* ------------------------------------------------------------------------

\* The series IndicatorService computes for a key over the cache's prices.
FreshSeries(key) ==
    IF key[1] = "rsi" THEN calculate_rsi_series(prices, key[2])
    ELSE IF key[1] = "sma"
    THEN [k \in 1..Max(0, Len(prices) - key[2] + 1) |->
             Val(calculate_sma(SubSeq(prices, 1, key[2] - 1 + k), key[2]))]
    ELSE calculate_ema_series(prices, key[2])

\* The key a call asks for: none for a price read or an unknown indicator.
KeysOf(c) ==
    IF c.op \in {"get_rsi", "get_sma", "get_ema"} THEN {<< c.kind, c.period >>}
    ELSE IF c.op = "get_value_at_bar" /\ c.indicator \in {"RSI", "rsi"}
    THEN {<< "rsi", c.period >>}
    ELSE IF c.op = "get_value_at_bar" /\ c.indicator = "SMA"
    THEN {<< "sma", c.period >>}
    ELSE IF c.op = "get_value_at_bar" /\ c.indicator = "EMA"
    THEN {<< "ema", c.period >>}
    ELSE {}

\* C20: a call adds the entry of the key it asks for when the key is new
\* and otherwise leaves the dict as it is; an entry, once there, stays with
\* the same series whatever calls follow, for its own and for other keys;
\* each entry is what the service computes for its key, and every call
\* returns what the same call returns on a cache without entries.
C20_Memoization ==
    /\ [][/\ \A k \in DOMAIN cache : k \in DOMAIN cache' /\ cache'[k] = cache[k]
          /\ DOMAIN cache' = DOMAIN cache \cup KeysOf(call')]_vars
    /\ [](\A k \in DOMAIN cache : cache[k] = FreshSeries(k))
    /\ [](call.op \in {"get_rsi", "get_sma", "get_ema"} =>
            /\ call.series = FreshSeries(<< call.kind, call.period >>)
            /\ call.series = cache[<< call.kind, call.period >>])
    /\ [](call.op = "get_value_at_bar" =>
            /\ call.exc = get_value_at_bar(prices, << >>, call.indicator,
                                           call.bar_index, call.period).exc
            /\ call.val = get_value_at_bar(prices, << >>, call.indicator,
                                           call.bar_index, call.period).val)

\* C20 witness: a call for a key that was already there, made on a cache
\* that holds all the keys and returning a value.
C20_Witness ==
    /\ call.op = "get_value_at_bar"
    /\ call.indicator = "SMA"
    /\ call.val # None
    /\ DOMAIN cache = {"rsi", "sma", "ema"} \X CachePeriods
    /\ cache[<< "sma", 1 >>] # cache[<< "sma", MaxPeriod >>]

\* ------------------------------------------------------------------------
\* Claims on runs that follow one another in one process (SpecLong)
\* ------------------------------------------------------------------------

\* The run of a request executed alone, in a process that has served no
\* other request: its mock prices, and the trade log and net profit the
\* loop over the bars from warmup_period ends with.
RunAlone(rows, bot_id, duration_days, initial_balance) ==
    LET rs == query_rules(rows, bot_id)
        n == duration_days * BarsPerDay
        data == generate(n, random_seed(bot_id + duration_days))
        step(st, k) ==
            IF st.exc # "none" THEN st
            ELSE LET m == scan_rules(rs, data.prices, st.cache, k)
                 IN  [book |-> execute(st.book, m, k, data.prices[k + 1]),
                      cache |-> m.cache, exc |-> m.exc]
        end == iterate(step,
                       [book |-> Book("None", 0, initial_balance, << >>, << >>),
                        cache |-> << >>, exc |-> "none"],
                       warmup_period, n)
    IN  [prices |-> data.prices, trade_log |-> end.book.trades,
         net_profit |-> end.book.balance - initial_balance]

InWindow(times, t) ==
    LET inside(ts) == t - 60 < ts /\ ts <= t
    IN  SelectSeq(times, inside)

AcceptedOf(k) == stored(accepted_calls(call), k)

LegalMove(state, action) ==
    << state, action >> \in
        { << "stopped", "start" >>, << "running", "stop" >>,
          << "running", "pause" >>, << "paused", "start" >>,
          << "paused", "stop" >> }

Target(action) ==
    CASE action = "start" -> "running"
      [] action = "stop" -> "stopped"
      [] action = "pause" -> "paused"

\* C22: a start, stop or pause request succeeds only on one of the five
\* pairs and then moves the bot to the state of its action; a request on
\* any other pair is rejected and leaves the bot table as it was, as does
\* every rejected request; a request on one of the five pairs succeeds
\* unless the rate limit refuses it; no request touches another bot; and
\* validate_transition is true of the five pairs alone, so of no action in
\* a state it does not know.
C22_Lifecycle ==
    /\ [][\A b \in BotIds, a \in ControlActions :
            ControlBot(b, a) =>
                /\ call'.code = 200 =>
                      /\ b \in DOMAIN db_bots
                      /\ LegalMove(db_bots[b].bot_state, a)
                      /\ db_bots'[b].bot_state = Target(a)
                /\ (b \in DOMAIN db_bots /\ ~LegalMove(db_bots[b].bot_state, a)) =>
                      /\ call'.code \in {400, 429}
                      /\ db_bots' = db_bots
                /\ call'.code # 200 => db_bots' = db_bots
                /\ (b \in DOMAIN db_bots /\ LegalMove(db_bots[b].bot_state, a)
                        /\ Len(stored(rate_limit_store, "1")) < 10) =>
                      call'.code = 200
                /\ DOMAIN db_bots' = DOMAIN db_bots
                /\ \A o \in DOMAIN db_bots : o # b => db_bots'[o] = db_bots[o]]_vars
    /\ [](call.op = "validate_transition" =>
            call.ret = LegalMove(call.current_state, call.action))

\* C22 witness: a pause request on a paused bot was rejected, the bot still
\* paused and active.
C22_Witness ==
    /\ call.op = "pause"
    /\ call.code = 400
    /\ db_bots[call.bot_id].bot_state = "paused"
    /\ db_bots[call.bot_id].is_active

\* The rule rows of a bot.
RulesOf(rows, b) == {row \in rows : row.bot_profile_id = b}

\* C23: the rule rows of a bot change only in a step that finds the bot
\* stopped and leaves it stopped, and an update_bot_rules request on a
\* running or paused bot is answered 400 with the rule table unchanged.
C23_SafetyLock ==
    /\ [][\A b \in BotIds :
            RulesOf(db_rules', b) # RulesOf(db_rules, b) =>
                /\ b \in DOMAIN db_bots
                /\ db_bots[b].bot_state = "stopped"
                /\ db_bots'[b].bot_state = "stopped"]_vars
    /\ [][\A b \in BotIds, l \in UpdateLists, c \in BOOLEAN :
            (UpdateBotRules(b, l, c) /\ b \in DOMAIN db_bots
                /\ db_bots[b].bot_state \in {"running", "paused"}) =>
                /\ call'.code = 400
                /\ call'.detail = "locked"
                /\ db_rules' = db_rules]_vars

\* C23 witness: a confirmed empty update on a paused bot with rules was
\* rejected by the lock, the rules still there.
C23_Witness ==
    /\ call.op = "update_bot_rules"
    /\ call.code = 400
    /\ call.detail = "locked"
    /\ call.rules = << >>
    /\ call.confirm_empty
    /\ db_bots[call.bot_id].bot_state = "paused"
    /\ RulesOf(db_rules, call.bot_id) # {}

C30_LifecycleInvariant ==
    /\ \A b \in DOMAIN db_bots :
          /\ db_bots[b].bot_state \in {"stopped", "running", "paused"}
          /\ db_bots[b].is_active = (db_bots[b].bot_state \in {"running", "paused"})
    /\ (call.op = "emergency_stop" /\ call.code = 200) =>
          \A b \in DOMAIN db_bots :
              db_bots[b].bot_state = "stopped" /\ ~db_bots[b].is_active

\* C30 witness: a paused bot is active beside a stopped one.
C30_Witness ==
    /\ DOMAIN db_bots = BotIds
    /\ db_bots[1].bot_state = "paused"
    /\ db_bots[1].is_active
    /\ db_bots[2].bot_state = "stopped"
    /\ ~db_bots[2].is_active
    /\ call.op = "pause"
    /\ call.code = 200

\* ------------------------------------------------------------------------
\* Claims on shadowing and on the trade records (Spec)
\* ------------------------------------------------------------------------

\* An action the bar cannot apply in a position: an opening while a
\* position is open, a close while none is, or no trading action at all.
Inapplicable(action, pos) ==
    \/ action \in {"Buy", "Sell"} /\ pos # "None"
    \/ action = "Close Position" /\ pos = "None"
    \/ action \notin {"Buy", "Sell", "Close Position"}

\* C26: at every bar the action triggered is that of the first enabled row
\* whose condition holds, whatever the action is; when the position makes
\* that action inapplicable the bar changes neither the position nor the
\* entry price, the balance, the trade log or the reasons, also when a later
\* enabled row holds at the bar with an action that could be applied.
C26_Shadowing ==
    [][(pc = "loop" /\ pc' = "loop" /\ i' = i + 1) =>
          \A r \in Matching(i) :
              (\A q \in Matching(i) : r.rule_order <= q.rule_order) =>
                  /\ action_triggered' = r.action
                  /\ trigger_rule' = r.rule_order
                  /\ Inapplicable(r.action, position) =>
                        UNCHANGED << position, entry_price, balance, trades,
                                     reasons >>]_vars

\* C26 witness: at the bar just left the first row asked for Buy while the
\* position was the buy of an earlier bar, a later row asking for Close
\* Position held as well, and the position is still open with nothing
\* logged for the bar.
C26_Witness ==
    /\ AfterBar
    /\ position = "buy"
    /\ action_triggered = "Buy"
    /\ trigger_rule = 1
    /\ reasons # << >>
    /\ reasons[Len(reasons)].bar < i - 1
    /\ trades = << >>
    /\ \E q \in Matching(i - 1) :
          q.rule_order > trigger_rule /\ q.action = "Close Position"

\* C27 (the claim as stated): every record of the trade log carries the bar
\* at which its position was opened and the bar at which it was closed, the
\* second after the first, the side that was opened, and as entry and exit
\* prices the close prices of those two bars.
C27_TradeRecord ==
    \A k \in 1..Len(trades) :
        /\ {"entry_bar", "bar"} \subseteq DOMAIN trades[k]
        /\ trades[k].entry_bar < trades[k].bar
        /\ trades[k].type \in {"buy", "sell"}
        /\ trades[k].entry = prices[trades[k].entry_bar + 1]
        /\ trades[k].exit = prices[trades[k].bar + 1]

\* ------------------------------------------------------------------------
\* Claims on look-ahead and on consecutive crosses (SpecEval)
\* ------------------------------------------------------------------------

\* The single-value function of an indicator, and the series the cache
\* keeps for it.
Single(indicator, ps, period) ==
    CASE indicator = "RSI" -> calculate_rsi(ps, period)
      [] indicator = "SMA" -> calculate_sma(ps, period)
      [] indicator = "EMA" -> calculate_ema(ps, period)

SeriesOf(indicator, ps, period) ==
    CASE indicator = "RSI" -> calculate_rsi_series(ps, period)
      [] indicator = "SMA" -> sma_series(ps, period)
      [] indicator = "EMA" -> calculate_ema_series(ps, period)

\* prices[0..b]
Prefix(ps, b) == SubSeq(ps, 1, b + 1)

\* C28: for RSI, SMA and EMA the value the cache returns at a bar b of its
\* prices is the single-value function of prices[0..b]; every price list
\* that agrees with the cache's on bars 0..b gives the same value at b; and
\* the series of every prefix of the prices is the start of the series of
\* all of them.
C28_NoLookAhead ==
    (call.op = "get_value_at_bar"
        /\ upper(call.indicator) \in {"RSI", "SMA", "EMA"}
        /\ call.bar_index \in 0..(Len(prices) - 1)) =>
        /\ call.exc = "none"
        /\ call.val = Single(upper(call.indicator),
                             Prefix(prices, call.bar_index), call.period)
        /\ \A q \in PriceLists :
              (Len(q) > call.bar_index
                  /\ Prefix(q, call.bar_index) = Prefix(prices, call.bar_index))
              => get_value_at_bar(q, << >>, call.indicator, call.bar_index,
                                  call.period).val = call.val
        /\ \A n \in 0..Len(prices) :
              LET part == SeriesOf(upper(call.indicator), SubSeq(prices, 1, n),
                                   call.period)
                  whole == SeriesOf(upper(call.indicator), prices, call.period)
              IN  /\ Len(part) <= Len(whole)
                  /\ part = SubSeq(whole, 1, Len(part))

\* C28 witness: the EMA(2) at bar 2 of four prices has a value, and it is
\* not the EMA of the four.
C28_Witness ==
    /\ call.op = "get_value_at_bar"
    /\ call.indicator = "EMA"
    /\ call.period = 2
    /\ call.bar_index = 2
    /\ Len(prices) = 4
    /\ call.val # None
    /\ call.val # calculate_ema(prices, 2)
    /\ call.val = calculate_ema(SubSeq(prices, 1, 3), 2)

\* What evaluate answers on the same price list for another bar or another
\* operator, the indicator, period and threshold of the call kept.
EvaluateAt(operator, bar_index) ==
    evaluate(prices, << >>, call.indicator, operator, call.target_value,
             bar_index, call.period).ret

\* C29: a cross rule cannot match on two consecutive bars. For the
\* indicator, period and threshold of a call: when evaluate with
\* crosses_above is true at bar b it is false at bar b + 1, likewise for
\* crosses_below; crosses_above and crosses_below are never both true at
\* the same bar; and between two bars where crosses_above is true there is
\* a bar whose value is at most the threshold.
C29_NoConsecutiveCross ==
    (call.op = "evaluate" /\ call.operator \in CrossOperators /\ call.ret = TRUE) =>
        /\ call.exc = "none"
        /\ EvaluateAt(call.operator, call.bar_index) = TRUE
        /\ EvaluateAt(call.operator, call.bar_index + 1) = FALSE
        /\ EvaluateAt(call.operator, call.bar_index - 1) = FALSE
        /\ \A operator \in CrossOperators \ {call.operator} :
               EvaluateAt(operator, call.bar_index) = FALSE
        /\ call.operator = "crosses_above" =>
               \A later \in BarIndexes :
                   (later > call.bar_index /\ EvaluateAt("crosses_above", later) = TRUE) =>
                       \E bar \in (call.bar_index + 1)..(later - 1) :
                           /\ ~IsNone(ValueAt(bar))
                           /\ Val(ValueAt(bar)) <= call.target_value

\* C29 witness: crosses_above returned True at a bar that is not the last
\* one, and a later bar of the same list matches crosses_above again.
C29_Witness ==
    /\ call.op = "evaluate"
    /\ call.operator = "crosses_above"
    /\ call.ret = TRUE
    /\ call.bar_index + 1 < Len(prices)
    /\ ~IsNone(ValueAt(call.bar_index + 1))
    /\ \E later \in BarIndexes :
           later > call.bar_index /\ EvaluateAt("crosses_above", later) = TRUE

====
